---- MODULE Spec2Model ----
(***************************************************************************)
(* Day 17 - Pyroclastic Flow: the cycle-detecting rock-tower simulator     *)
(* (JetStream and PlayField of src/AoCLib/Sorters.py, lines 4597-4908) and *)
(* the literal 2022-drop simulation of the earlier variant (4911-5122).    *)
(***************************************************************************)
EXTENDS Integers, Sequences, FiniteSets, TLC

\* ------------------------------------------------------------------------
\* Bounds of the model
\* ------------------------------------------------------------------------
MaxJetLen == 4      \* jet patterns of 0..MaxJetLen symbols are read
MaxDrops == 80      \* rocks dropped before the model stops following a run
MaxQuery == 12      \* small drop counts 0..MaxQuery are queried
MaxK == 3           \* cycle multiples 0..MaxK of the linearity law
MaxShiftRows == 2   \* rows of the rocks handed to _try_move_sideways alone
MaxSortLen == 4     \* longest list handed to a sorter
MaxItem == 2        \* list items are 0..MaxItem
MaxRows == 3        \* rows of the matrices handed to the transpose functions
MaxCols == 3        \* columns of those matrices
MaxSets == 3        \* sets in the sequence handed to union_all, intersect_all
MaxModules == 3     \* script files that match the pattern of aoc_modules
MazeRows == 2       \* rows of the mazes searched
MazeCols == 2       \* columns of the mazes searched
MaxPacketInt == 1   \* the integers of a packet are 0..MaxPacketInt
MaxInnerLen == 2    \* longest list inside a packet
MaxPacketLen == 2   \* longest packet
MaxProgram == 3     \* instructions on the instruction bus of the CPU

\* ------------------------------------------------------------------------
\* Python's unbounded integers, kept in two limbs: value = hi * Base + lo
\* with 0 <= lo < Base and hi any integer (floor representation).
\* ------------------------------------------------------------------------
Base == 1000000

BigNorm(h, l) == [hi |-> h + (l \div Base), lo |-> l % Base]

ToBig(x) == BigNorm(0, x)

BigAddInt(a, x) == BigNorm(a.hi, a.lo + x)

BigMulInt(a, m) == BigNorm(a.hi * m + ((a.lo * m) \div Base), (a.lo * m) % Base)

\* divmod(a, d) of Python for d > 0: floor quotient, remainder in 0..d-1
BigDivMod(a, d) ==
    LET t == (a.hi % d) * Base + a.lo
    IN  [q |-> [hi |-> a.hi \div d, lo |-> t \div d], r |-> t % d]

BigLeq(a, b) == a.hi < b.hi \/ (a.hi = b.hi /\ a.lo <= b.lo)

\* ------------------------------------------------------------------------
\* Bit operations on row masks
\* ------------------------------------------------------------------------
RECURSIVE BitAnd(_, _)
BitAnd(i, j) ==
    IF i = 0 \/ j = 0 THEN 0
    ELSE (i % 2) * (j % 2) + 2 * BitAnd(i \div 2, j \div 2)

RECURSIVE BitOr(_, _)
BitOr(i, j) ==
    IF i = 0 THEN j
    ELSE IF j = 0 THEN i
    ELSE (IF (i % 2) + (j % 2) > 0 THEN 1 ELSE 0) + 2 * BitOr(i \div 2, j \div 2)

RECURSIVE PopCount(_)
PopCount(i) == IF i = 0 THEN 0 ELSE (i % 2) + PopCount(i \div 2)

\* bit_set(n, bit_nr): bit_value = 2 ** bit_nr; bit_value & n == bit_value
bit_set(n, bit_nr) == BitAnd(2 ^ bit_nr, n) = 2 ^ bit_nr

Min(a, b) == IF a <= b THEN a ELSE b

Max(a, b) == IF a >= b THEN a ELSE b

\* A Python slice bound: negative bounds count from the end, and every bound
\* is clamped to 0..len.
PyIdx(x, len) == IF x < 0 THEN Max(x + len, 0) ELSE Min(x, len)

\* Python slice lst[a:b] of a 0-based list kept as a 1-based sequence
Slice(lst, a, b) == SubSeq(lst, PyIdx(a, Len(lst)) + 1, PyIdx(b, Len(lst)))

\* any(i & j for i, j in zip(rock, play_field))
rows_overlap(rk, play_field) ==
    \E i \in 1..Min(Len(rk), Len(play_field)) : BitAnd(rk[i], play_field[i]) # 0

\* mutant of _all_leftmost_bit_cleared: all() written for any()
_all_leftmost_bit_cleared_not_all(rk) == ~ \A i \in 1..Len(rk) : bit_set(rk[i], 6)

_all_leftmost_bit_cleared(rk) == ~ \E i \in 1..Len(rk) : bit_set(rk[i], 6)

_all_rightmost_bit_cleared(rk) == ~ \E i \in 1..Len(rk) : bit_set(rk[i], 0)

_shifted_right(rk) == [i \in 1..Len(rk) |-> rk[i] \div 2]

_shifted_left(rk) == [i \in 1..Len(rk) |-> rk[i] * 2]

\* mutant of _can_move_to_left: the field is not consulted
_can_move_to_left_boundary_only(rk, play_field) == _all_leftmost_bit_cleared(rk)

_can_move_to_left(rk, play_field) ==
    _all_leftmost_bit_cleared(rk) /\ ~ rows_overlap(_shifted_left(rk), play_field)

\* mutant of _can_move_to_right: the right edge is not looked at
_can_move_to_right_no_boundary(rk, play_field) ==
    ~ rows_overlap(_shifted_right(rk), play_field)

_can_move_to_right(rk, play_field) ==
    _all_rightmost_bit_cleared(rk) /\ ~ rows_overlap(_shifted_right(rk), play_field)

\* the five rock shapes, bottom row first
rocks == << <<30>>, <<8, 28, 8>>, <<28, 4, 4>>, <<16, 16, 16, 16>>, <<24, 24>> >>


\* ------------------------------------------------------------------------
\* State
\* ------------------------------------------------------------------------
VARIABLES
    jets,               \* JetStream.__jets
    offset,             \* JetStream._offset
    jets_yielded,       \* JetStream._jets_yielded
    direction,          \* the symbol last returned by next(jet_stream)
    field,              \* the PlayField list itself, row 0 first
    rocks_dropped,      \* PlayField._rocks_dropped
    d2h,                \* PlayField._d2h: nr dropped -> post drop height
    drops_before_cycles,
    cycle_drops,
    delta_height_before_cycles,
    cycle_height,
    rock,               \* local of _drop_next_rock
    rock_start_offset,  \* local of _drop_next_rock
    jet_offset,         \* parameter of _drop_until_jet_offset
    cmp,                \* parameter of _drop_until_jet_offset: "ge" or "eq"
    drops_at_start,     \* local of _drop_until_jet_offset
    nr_drops,           \* argument of the last get_tallest_tower call
    tallest,            \* value returned by the last get_tallest_tower call
    pc,                 \* position of the program
    pf,                 \* literal simulation: the playing field
    n,                  \* literal simulation: loop counter of main
    d_offset,           \* literal simulation: JetStream.__offset
    solution_1,         \* literal simulation: len(pf) - 1 after the loop
    call,               \* library call: name of the function applied
    arg0,               \* library call: value of the argument at the call
    arg,                \* library call: the argument object after the call
    ret                 \* library call: the value returned

jetVars == <<jets, offset, jets_yielded, direction>>
cycleVars == <<drops_before_cycles, cycle_drops, delta_height_before_cycles,
               cycle_height>>
dropVars == <<rock, rock_start_offset>>
untilVars == <<jet_offset, cmp, drops_at_start>>
queryVars == <<nr_drops, tallest>>
directVars == <<pf, n, d_offset, solution_1>>
libVars == <<call, arg0, arg, ret>>
vars == <<jetVars, field, rocks_dropped, d2h, cycleVars, dropVars, untilVars,
          queryVars, pc, directVars, libVars>>

\* ------------------------------------------------------------------------
\* Inputs
\* ------------------------------------------------------------------------
JetSymbols == {"<", ">"}

\* first lines of the jet file: 0..MaxJetLen jet symbols and the newline
JetFileLines ==
    UNION {{p \o <<"\n">> : p \in [1..len -> JetSymbols]} : len \in 0..MaxJetLen}

\* the published example pattern of the puzzle (input_files/day17t1.txt)
TestJets ==
    << ">", ">", ">", "<", "<", ">", "<", ">", ">", "<",
       "<", "<", ">", ">", "<", ">", ">", ">", "<", "<",
       "<", ">", ">", ">", "<", "<", "<", ">", "<", "<",
       "<", ">", ">", "<", ">", ">", "<", "<", ">", ">" >>

BigDrops == [hi |-> 1000000, lo |-> 0]        \* 1_000_000_000_000

Queries == {ToBig(x) : x \in 0..MaxQuery} \cup {ToBig(2022), BigDrops}

\* ------------------------------------------------------------------------
\* PlayField helpers
\* ------------------------------------------------------------------------
jets_per_cycle == Len(jets) * Len(rocks)

\* mutant of EmptyTopRows: the scan stops at the top row, empty or not
EmptyTopRowsNotScanned(f, empty_rows) == empty_rows

RECURSIVE EmptyTopRows(_, _)
EmptyTopRows(f, empty_rows) ==
    IF f[Len(f) - empty_rows] = 0 THEN EmptyTopRows(f, empty_rows + 1)
    ELSE empty_rows

_height(f) == Len(f) - EmptyTopRows(f, 0) - 1

\* mutant of Trimmed: the top row is deleted before it is looked at
TrimmedOneTooMany(f) == SubSeq(f, 1, Len(f) - 1)

\* mutant of Trimmed: the empty top rows are left in place
TrimmedNothing(f) == f

\* while not self[-1]: del self[-1]
RECURSIVE Trimmed(_)
Trimmed(f) == IF f[Len(f)] = 0 THEN Trimmed(SubSeq(f, 1, Len(f) - 1)) ELSE f

\* mutants of Cmp: operator.eq taken for operator.ge, operator.ge for gt
CmpAlwaysGe(op, a, b) == a >= b

CmpGt(op, a, b) == IF op = "ge" THEN a > b ELSE a = b

\* cmp(self._jets_yielded, jet_offset) for operator.ge and operator.eq
Cmp(op, a, b) == IF op = "ge" THEN a >= b ELSE a = b

\* JetStream.__next__: the symbol under the cursor and the advanced cursor
jet_char(js, off) == js[off + 1]

\* mutant of next_offset: the cursor does not wrap
next_offset_no_wrap(off, length) == off + 1

next_offset(off, length) == (off + 1) % length

\* _try_move_sideways: the (shifted or unchanged) rock for jet symbol dir
_try_move_sideways(f, rk, start, dir) ==
    LET destination == Slice(f, start, start + Len(rk))
    IN  IF dir = ">"
        THEN IF _can_move_to_right(rk, destination) THEN _shifted_right(rk) ELSE rk
        ELSE IF _can_move_to_left(rk, destination) THEN _shifted_left(rk) ELSE rk

\* mutant of _try_move_down: the destination rows start one row too low
_try_move_down_row_too_low(f, rk, start) ==
    LET destination == Slice(f, start - 2, start - 2 + Len(rk))
    IN  ~ rows_overlap(rk, destination)

\* _try_move_down: True if the rock can move down one unit
_try_move_down(f, rk, start) ==
    LET destination == Slice(f, start - 1, start - 1 + Len(rk))
    IN  ~ rows_overlap(rk, destination)

\* the loop of _put_on_playfield: self[rock_start_offset + i] |= rock[i]
Merged(f, rk, start) ==
    [i \in 1..Len(f) |->
        IF i - 1 >= start /\ i - 1 < start + Len(rk)
        THEN BitOr(f[i], rk[i - start]) ELSE f[i]]

\* mutant of get_tallest_tower: nr_drops is not reduced by the drops before
\* the first cycle
get_tallest_tower_no_lead_in(N) ==
    LET dm == BigDivMod(N, cycle_drops)
    IN  BigAddInt(BigAddInt(BigMulInt(dm.q, cycle_height),
                            delta_height_before_cycles),
                  d2h[drops_before_cycles + dm.r] - delta_height_before_cycles)

\* mutant of get_tallest_tower: the cycles are counted in drops, not height
get_tallest_tower_cycle_drops(N) ==
    LET dm == BigDivMod(BigAddInt(N, 0 - drops_before_cycles), cycle_drops)
    IN  BigAddInt(BigAddInt(BigMulInt(dm.q, cycle_drops),
                            delta_height_before_cycles),
                  d2h[drops_before_cycles + dm.r] - delta_height_before_cycles)

\* get_tallest_tower(nr_drops), by calculation from the cycle data
get_tallest_tower(N) ==
    LET dm == BigDivMod(BigAddInt(N, 0 - drops_before_cycles), cycle_drops)
        delta_height_in_cycles == BigMulInt(dm.q, cycle_height)
        delta_height_after_cycles ==
            d2h[drops_before_cycles + dm.r] - delta_height_before_cycles
    IN  BigAddInt(BigAddInt(delta_height_in_cycles, delta_height_before_cycles),
                  delta_height_after_cycles)

\* ------------------------------------------------------------------------
\* Initial state: JetStream(jet_file) and PlayField.__init__ up to the first
\* loop test of _drop_until_jet_offset(jets_per_cycle, operator.ge)
\* ------------------------------------------------------------------------
\* no library call is in progress
LibInit(a) ==
    /\ call = "none"
    /\ arg0 = a
    /\ arg = a
    /\ ret = <<>>

TowerInit(js, start) ==
    /\ jets = js
    /\ offset = 0
    /\ jets_yielded = 0
    /\ direction = ""
    /\ field = <<127>>
    /\ rocks_dropped = 0
    /\ d2h = <<>>
    /\ drops_before_cycles = 0
    /\ cycle_drops = 0
    /\ delta_height_before_cycles = 0
    /\ cycle_height = 0
    /\ rock = <<>>
    /\ rock_start_offset = 0
    /\ jet_offset = Len(js) * Len(rocks)
    /\ cmp = "ge"
    /\ drops_at_start = 0
    /\ nr_drops = ToBig(0)
    /\ tallest = ToBig(0)
    /\ pc = start
    /\ pf = <<127>>
    /\ n = 0
    /\ d_offset = 0
    /\ solution_1 = 0

InitWith(js, start) == LibInit(<<>>) /\ TowerInit(js, start)

Init == \E line \in JetFileLines : InitWith(Slice(line, 0, -1), "until")

\* ------------------------------------------------------------------------
\* Actions of the cycle-detecting simulator
\* ------------------------------------------------------------------------
\* the loop test of _drop_until_jet_offset fails: _drop_next_rock starts with
\* _prepare_drop
PrepareDrop ==
    /\ pc = "until"
    /\ ~ Cmp(cmp, jets_yielded, jet_offset)
    /\ rocks_dropped < MaxDrops
    /\ rock' = rocks[(rocks_dropped % 5) + 1]
    /\ rocks_dropped' = rocks_dropped + 1
    /\ field' = Trimmed(field) \o <<0, 0, 0, 0>>
    /\ rock_start_offset' = Len(field') - 1
    /\ pc' = "sideways"
    /\ UNCHANGED <<jetVars, d2h, cycleVars, untilVars, queryVars, directVars, libVars>>

\* mutant of TryMoveSideways: the jet is consumed only when the shift succeeds
TryMoveSidewaysJetOnSuccess ==
    /\ pc = "sideways"
    /\ IF offset < Len(jets)
       THEN /\ direction' = jet_char(jets, offset)
            /\ rock' = _try_move_sideways(field, rock, rock_start_offset,
                                          direction')
            /\ offset' = IF rock' = rock THEN offset
                         ELSE next_offset(offset, Len(jets))
            /\ jets_yielded' = IF rock' = rock THEN jets_yielded
                               ELSE jets_yielded + 1
            /\ pc' = "down"
       ELSE /\ pc' = "error"
            /\ UNCHANGED <<direction, offset, jets_yielded, rock>>
    /\ UNCHANGED <<jets, field, rocks_dropped, d2h, cycleVars,
                   rock_start_offset, untilVars, queryVars, directVars, libVars>>

TryMoveSideways ==
    /\ pc = "sideways"
    /\ IF offset < Len(jets)
       THEN /\ direction' = jet_char(jets, offset)
            /\ offset' = next_offset(offset, Len(jets))
            /\ jets_yielded' = jets_yielded + 1
            /\ rock' = _try_move_sideways(field, rock, rock_start_offset,
                                          direction')
            /\ pc' = "down"
       ELSE /\ pc' = "error"
            /\ UNCHANGED <<direction, offset, jets_yielded, rock>>
    /\ UNCHANGED <<jets, field, rocks_dropped, d2h, cycleVars,
                   rock_start_offset, untilVars, queryVars, directVars, libVars>>

TryMoveDown ==
    /\ pc = "down"
    /\ IF _try_move_down(field, rock, rock_start_offset)
       THEN /\ rock_start_offset' = rock_start_offset - 1
            /\ pc' = "sideways"
       ELSE /\ pc' = "put"
            /\ UNCHANGED rock_start_offset
    /\ UNCHANGED <<jetVars, field, rocks_dropped, d2h, cycleVars, rock,
                   untilVars, queryVars, directVars, libVars>>

\* mutant of PutOnPlayfield: the height is recorded before the rock is merged
PutOnPlayfieldHeightBeforeMerge ==
    /\ pc = "put"
    /\ IF rock_start_offset + Len(rock) <= Len(field)
       THEN /\ field' = Merged(field, rock, rock_start_offset)
            /\ d2h' = d2h @@ (rocks_dropped :> _height(field))
            /\ pc' = "until"
       ELSE /\ pc' = "error"
            /\ UNCHANGED <<field, d2h>>
    /\ UNCHANGED <<jetVars, rocks_dropped, cycleVars, dropVars, untilVars,
                   queryVars, directVars, libVars>>

PutOnPlayfield ==
    /\ pc = "put"
    /\ IF rock_start_offset + Len(rock) <= Len(field)
       THEN /\ field' = Merged(field, rock, rock_start_offset)
            /\ d2h' = d2h @@ (rocks_dropped :> _height(field'))
            /\ pc' = "until"
       ELSE /\ pc' = "error"
            /\ UNCHANGED <<field, d2h>>
    /\ UNCHANGED <<jetVars, rocks_dropped, cycleVars, dropVars, untilVars,
                   queryVars, directVars, libVars>>

\* _drop_until_jet_offset(jets_per_cycle, operator.ge) returns; phase two is
\* entered with _drop_until_jet_offset(jets_yielded + jets_per_cycle, eq)
\* mutant of PhaseOneDone: a missing drop record reads as height 0
PhaseOneDoneDefaultHeight ==
    /\ pc = "until"
    /\ cmp = "ge"
    /\ Cmp(cmp, jets_yielded, jet_offset)
    /\ drops_before_cycles' = rocks_dropped - drops_at_start
    /\ delta_height_before_cycles' =
           IF drops_before_cycles' \in DOMAIN d2h
           THEN d2h[drops_before_cycles'] ELSE 0
    /\ jet_offset' = jets_yielded + jets_per_cycle
    /\ cmp' = "eq"
    /\ drops_at_start' = rocks_dropped
    /\ pc' = "until"
    /\ UNCHANGED <<jetVars, field, rocks_dropped, d2h, cycle_drops,
                   cycle_height, dropVars, queryVars, directVars, libVars>>

PhaseOneDone ==
    /\ pc = "until"
    /\ cmp = "ge"
    /\ Cmp(cmp, jets_yielded, jet_offset)
    /\ drops_before_cycles' = rocks_dropped - drops_at_start
    /\ IF drops_before_cycles' \in DOMAIN d2h
       THEN /\ delta_height_before_cycles' = d2h[drops_before_cycles']
            /\ jet_offset' = jets_yielded + jets_per_cycle
            /\ cmp' = "eq"
            /\ drops_at_start' = rocks_dropped
            /\ pc' = "until"
       ELSE /\ pc' = "error"
            /\ UNCHANGED <<delta_height_before_cycles, untilVars>>
    /\ UNCHANGED <<jetVars, field, rocks_dropped, d2h, cycle_drops,
                   cycle_height, dropVars, queryVars, directVars, libVars>>

\* the second _drop_until_jet_offset returns and __init__ completes
PhaseTwoDone ==
    /\ pc = "until"
    /\ cmp = "eq"
    /\ Cmp(cmp, jets_yielded, jet_offset)
    /\ cycle_drops' = rocks_dropped - drops_at_start
    /\ cycle_height' = _height(field) - delta_height_before_cycles
    /\ pc' = "ready"
    /\ UNCHANGED <<jetVars, field, rocks_dropped, d2h, drops_before_cycles,
                   delta_height_before_cycles, dropVars, untilVars, queryVars,
                   directVars, libVars>>

\* mutant of GetTallestTower: the answer is written into the drop records
GetTallestTowerRecorded ==
    /\ pc \in {"ready", "answered"}
    /\ \E N \in Queries :
        /\ nr_drops' = N
        /\ tallest' = get_tallest_tower(N)
        /\ d2h' = IF N.hi = 0 THEN (N.lo :> tallest'.lo) @@ d2h ELSE d2h
    /\ pc' = "answered"
    /\ UNCHANGED <<jetVars, field, rocks_dropped, cycleVars, dropVars,
                   untilVars, directVars, libVars>>

GetTallestTower ==
    /\ pc \in {"ready", "answered"}
    /\ \E N \in Queries :
        /\ nr_drops' = N
        /\ tallest' = get_tallest_tower(N)
    /\ pc' = "answered"
    /\ UNCHANGED <<jetVars, field, rocks_dropped, d2h, cycleVars, dropVars,
                   untilVars, directVars, libVars>>

Next ==
    \/ PrepareDrop
    \/ TryMoveSideways
    \/ TryMoveDown
    \/ PutOnPlayfield
    \/ PhaseOneDone
    \/ PhaseTwoDone
    \/ GetTallestTower

Spec == Init /\ [][Next]_vars

\* the constructor and the queries run to completion on one thread
SpecFair == Spec /\ WF_vars(Next)

\* ------------------------------------------------------------------------
\* The literal simulation (main of the earlier variant): 2022 drops, no
\* cycle detection
\* ------------------------------------------------------------------------
DirectDrops == 2022

shift_right(mask_rows) == [i \in 1..Len(mask_rows) |-> mask_rows[i] \div 2]

shift_left(mask_rows) == [i \in 1..Len(mask_rows) |-> mask_rows[i] * 2]

can_shift_right(mask_rows, playfield_rows) ==
    /\ ~ \E i \in 1..Len(mask_rows) : bit_set(mask_rows[i], 0)
    /\ ~ rows_overlap(shift_right(mask_rows), playfield_rows)

\* mutant of can_shift_left: the field is not consulted
can_shift_left_boundary_only(mask_rows, playfield_rows) ==
    ~ \E i \in 1..Len(mask_rows) : bit_set(mask_rows[i], 6)

can_shift_left(mask_rows, playfield_rows) ==
    /\ ~ \E i \in 1..Len(mask_rows) : bit_set(mask_rows[i], 6)
    /\ ~ rows_overlap(shift_left(mask_rows), playfield_rows)

process_jet(dir, mask_rows, playfield_rows) ==
    IF dir = ">"
    THEN IF can_shift_right(mask_rows, playfield_rows)
         THEN shift_right(mask_rows) ELSE mask_rows
    ELSE IF can_shift_left(mask_rows, playfield_rows)
         THEN shift_left(mask_rows) ELSE mask_rows

\* prepare_playing_field: y_min is the highest row containing rock
RECURSIVE TopRow(_, _)
TopRow(f, y_min) == IF f[y_min + 1] = 0 THEN TopRow(f, y_min - 1) ELSE y_min

\* the inner while True loop of main: jets and down-moves until the rock rests
RECURSIVE DirectFall(_, _, _, _, _)
DirectFall(f, js, mask_rows, y_max, off) ==
    LET nr_mask_rows == Len(mask_rows)
        left_right_window == Slice(f, y_max + 1 - nr_mask_rows, y_max + 1)
        moved == process_jet(jet_char(js, off), mask_rows, left_right_window)
        off2 == next_offset(off, Len(js))
        down_window == Slice(f, y_max - nr_mask_rows, y_max)
    IN  IF rows_overlap(moved, down_window)
        THEN [mask_rows |-> moved, y_max |-> y_max, off |-> off2]
        ELSE DirectFall(f, js, moved, y_max - 1, off2)

\* pf[y_max - i] = mask_rows[nr_mask_rows - 1 - i] | pf[y_max - i]
Integrated(f, mask_rows, y_max) ==
    LET nr_mask_rows == Len(mask_rows)
        bottom == y_max - nr_mask_rows + 1     \* lowest row of the rock
    IN  SubSeq(f, 1, bottom)
        \o [j \in 1..nr_mask_rows |-> BitOr(mask_rows[j], f[bottom + j])]
        \o SubSeq(f, y_max + 2, Len(f))

InitDirect == InitWith(TestJets, "direct")

\* one iteration of for n in range(2022)
DirectIteration ==
    /\ pc = "direct"
    /\ n < DirectDrops
    /\ LET mask_rows == rocks[(n % 5) + 1]
           y_min == TopRow(pf, Len(pf) - 1)
           extended == pf \o [i \in 1..Len(mask_rows) |-> 0]
           y_max == y_min + 3 + Len(mask_rows)
           rest == DirectFall(extended, jets, mask_rows, y_max, d_offset)
       IN  /\ pf' = Trimmed(Integrated(extended, rest.mask_rows, rest.y_max))
           /\ d_offset' = rest.off
    /\ n' = n + 1
    /\ UNCHANGED <<jetVars, field, rocks_dropped, d2h, cycleVars, dropVars,
                   untilVars, queryVars, pc, solution_1, libVars>>

\* the loop is exhausted: solution_1 = len(pf) - 1; the reference run then
\* goes on to construct the PlayField on the same jet file
DirectDone ==
    /\ pc = "direct"
    /\ n = DirectDrops
    /\ solution_1' = Len(pf) - 1
    /\ pc' = "until"
    /\ UNCHANGED <<jetVars, field, rocks_dropped, d2h, cycleVars, dropVars,
                   untilVars, queryVars, pf, n, d_offset, libVars>>

InitRef == InitDirect

NextRef == Next \/ DirectIteration \/ DirectDone

SpecRef == InitRef /\ [][NextRef]_vars

\* ------------------------------------------------------------------------
\* _try_move_sideways on its own: any rock of 1..MaxShiftRows rows, full rows
\* included, against any rows of a field, for either jet symbol
\* ------------------------------------------------------------------------
ShiftRockRows == {127, 28, 8}

ShiftFieldRows == {0, 65, 127}

ShiftRocks == UNION {[1..len -> ShiftRockRows] : len \in 1..MaxShiftRows}

ShiftInputs ==
    {[f |-> <<127, a, b>>, rk |-> rk, start |-> 1, dir |-> dir] :
        a \in ShiftFieldRows, b \in ShiftFieldRows, rk \in ShiftRocks,
        dir \in JetSymbols}

InitShift == \E a \in ShiftInputs : LibInit(a) /\ TowerInit(<<>>, "call")

TryMoveSidewaysCall ==
    /\ pc = "call"
    /\ call' = "_try_move_sideways"
    /\ ret' = _try_move_sideways(arg.f, arg.rk, arg.start, arg.dir)
    /\ pc' = "returned"
    /\ UNCHANGED <<jetVars, field, rocks_dropped, d2h, cycleVars, dropVars,
                   untilVars, queryVars, directVars, arg0, arg>>

NextShift == TryMoveSidewaysCall

SpecShift == InitShift /\ [][NextShift]_vars

\* ------------------------------------------------------------------------
\* Sorter strategies: sort(data) sorts the list in place and returns None.
\* data is a 0-based Python list kept as a 1-based sequence: data[j] of the
\* code is data[j + 1] here.
\* ------------------------------------------------------------------------
\* data[a], data[b] = data[b], data[a]
Swapped(data, a, b) ==
    [data EXCEPT ![a + 1] = data[b + 1], ![b + 1] = data[a + 1]]

\* mutant of InsertionInner: the scan stops before index 0
InsertionInnerStopsAtOne(data, j, key) ==
    LET RECURSIVE scan(_, _)
        scan(d, k) == IF k > 0 /\ key < d[k + 1]
                      THEN scan([d EXCEPT ![k + 2] = d[k + 1]], k - 1)
                      ELSE [d EXCEPT ![k + 2] = key]
    IN  scan(data, j)

\* InsertionSort: while j >= 0 and key < data[j]: ...; data[j + 1] = key
RECURSIVE InsertionInner(_, _, _)
InsertionInner(data, j, key) ==
    IF j >= 0 /\ key < data[j + 1]
    THEN InsertionInner([data EXCEPT ![j + 2] = data[j + 1]], j - 1, key)
    ELSE [data EXCEPT ![j + 2] = key]

\* for i in range(1, len(data))
RECURSIVE InsertionOuter(_, _)
InsertionOuter(data, i) ==
    IF i < Len(data)
    THEN InsertionOuter(InsertionInner(data, i - 1, data[i + 1]), i + 1)
    ELSE data

InsertionSort(data) == InsertionOuter(data, 1)

\* BubbleSort: for j in range(nr_of_items - i - 1): swap if data[j] > data[j+1]
RECURSIVE BubbleInner(_, _, _)
BubbleInner(data, i, j) ==
    IF j < Len(data) - i - 1
    THEN BubbleInner(IF data[j + 1] > data[j + 2]
                     THEN Swapped(data, j, j + 1) ELSE data, i, j + 1)
    ELSE data

\* for i in range(nr_of_items)
RECURSIVE BubbleOuter(_, _)
BubbleOuter(data, i) ==
    IF i < Len(data) THEN BubbleOuter(BubbleInner(data, i, 0), i + 1) ELSE data

BubbleSort(data) == BubbleOuter(data, 0)

\* MergeSort: the three while loops that copy left and right back into data
RECURSIVE MergeLoops(_, _, _, _, _, _)
MergeLoops(data, left, right, i, j, k) ==
    IF i < Len(left) /\ j < Len(right)
    THEN IF right[j + 1] < left[i + 1]
         THEN MergeLoops([data EXCEPT ![k + 1] = right[j + 1]], left, right,
                         i, j + 1, k + 1)
         ELSE MergeLoops([data EXCEPT ![k + 1] = left[i + 1]], left, right,
                         i + 1, j, k + 1)
    ELSE IF i < Len(left)
         THEN MergeLoops([data EXCEPT ![k + 1] = left[i + 1]], left, right,
                         i + 1, j, k + 1)
         ELSE IF j < Len(right)
              THEN MergeLoops([data EXCEPT ![k + 1] = right[j + 1]], left,
                              right, i, j + 1, k + 1)
              ELSE data

RECURSIVE MergeSort(_)
MergeSort(data) ==
    IF Len(data) > 1
    THEN LET mid == Len(data) \div 2
             left == MergeSort(Slice(data, 0, mid))
             right == MergeSort(Slice(data, mid, Len(data)))
         IN  MergeLoops(data, left, right, 0, 0, 0)
    ELSE data

\* QuickSort._partition: the loop over j in range(low, high), the final swap
\* with the pivot, and the returned position
RECURSIVE PartitionLoop(_, _, _, _, _)
PartitionLoop(data, pivot, high, i, j) ==
    IF j < high
    THEN IF pivot > data[j + 1]
         THEN PartitionLoop(Swapped(data, i + 1, j), pivot, high, i + 1, j + 1)
         ELSE PartitionLoop(data, pivot, high, i, j + 1)
    ELSE [data |-> Swapped(data, i + 1, high), pi |-> i + 1]

_partition(data, low, high) ==
    PartitionLoop(data, data[high + 1], high, low - 1, low)

RECURSIVE _quick_sort(_, _, _)
_quick_sort(array, low, high) ==
    IF low < high
    THEN LET p == _partition(array, low, high)
         IN  _quick_sort(_quick_sort(p.data, low, p.pi - 1), p.pi + 1, high)
    ELSE array

QuickSort(data) == _quick_sort(data, 0, Len(data) - 1)

SortInputs == UNION {[1..len -> 0..MaxItem] : len \in 0..MaxSortLen}

InitSort == \E data \in SortInputs : LibInit(data) /\ TowerInit(<<>>, "call")

\* sorter.sort(arg): arg is sorted in place, nothing is returned
SortCall(name, sorted) ==
    /\ pc = "call"
    /\ call' = name
    /\ arg' = sorted
    /\ pc' = "returned"
    /\ UNCHANGED <<jetVars, field, rocks_dropped, d2h, cycleVars, dropVars,
                   untilVars, queryVars, directVars, arg0, ret>>

InsertionSortCall == SortCall("InsertionSort", InsertionSort(arg))

BubbleSortCall == SortCall("BubbleSort", BubbleSort(arg))

MergeSortCall == SortCall("MergeSort", MergeSort(arg))

QuickSortCall == SortCall("QuickSort", QuickSort(arg))

NextSort ==
    \/ InsertionSortCall
    \/ BubbleSortCall
    \/ MergeSortCall
    \/ QuickSortCall

\* a call of sort runs to its end on one thread
SpecSort == InitSort /\ [][NextSort]_vars /\ WF_vars(NextSort)

\* ------------------------------------------------------------------------
\* Matrix transposition: transposed of AoCLib.py and AoCLib/Miscellaneous.py,
\* transpose of AoCLib/Matrices.py. A matrix is a list of rows; matrix[r][c]
\* of the code is matrix[r + 1][c + 1] here.
\* ------------------------------------------------------------------------
\* mutant of transposed: the two loops are nested the other way round
transposed_loops_swapped(matrix) ==
    IF matrix = << <<>> >> THEN << <<>> >>
    ELSE [row \in 1..Len(matrix) |->
             [col \in 1..Len(matrix[1]) |-> matrix[row][col]]]

\* AoCLib.py: [[matrix[row][col] for row in range(len(matrix))]
\*             for col in range(len(matrix[0]))]
transposed(matrix) ==
    IF matrix = << <<>> >> THEN << <<>> >>
    ELSE [col \in 1..Len(matrix[1]) |->
             [row \in 1..Len(matrix) |-> matrix[row][col]]]

\* [row[i] for row in matrix]
RECURSIVE ItemOfEachRow(_, _)
ItemOfEachRow(matrix, i) ==
    IF matrix = <<>> THEN <<>>
    ELSE <<Head(matrix)[i + 1]>> \o ItemOfEachRow(Tail(matrix), i)

\* AoCLib/Miscellaneous.py:
\* [[row[i] for row in matrix] for i in range(len(matrix[0]))]
Miscellaneous_transposed(matrix) ==
    IF matrix = << <<>> >> THEN << <<>> >>
    ELSE [k \in 1..Len(matrix[1]) |-> ItemOfEachRow(matrix, k - 1)]

\* zip(*matrix): one tuple per position that every row has
RECURSIVE ShortestRow(_)
ShortestRow(matrix) ==
    IF Len(matrix) = 1 THEN Len(matrix[1])
    ELSE Min(Len(Head(matrix)), ShortestRow(Tail(matrix)))

zip(matrix) ==
    IF matrix = <<>> THEN <<>>
    ELSE [k \in 1..ShortestRow(matrix) |->
             [r \in 1..Len(matrix) |-> matrix[r][k]]]

\* mutant of transpose: the rows are zipped in reverse order, as rotate_90 does
transpose_rows_reversed(matrix) ==
    IF matrix = << <<>> >> THEN << <<>> >>
    ELSE LET tuples == zip([i \in 1..Len(matrix) |->
                                matrix[Len(matrix) + 1 - i]])
         IN  [k \in 1..Len(tuples) |-> tuples[k]]

\* AoCLib/Matrices.py: [[*items] for items in zip(*matrix)]
transpose(matrix) ==
    IF matrix = << <<>> >> THEN << <<>> >>
    ELSE LET tuples == zip(matrix)
         IN  [k \in 1..Len(tuples) |-> tuples[k]]

MatrixItems == 0..1

\* the empty matrix [[]] and every R x C matrix, 1 <= R <= MaxRows and
\* 1 <= C <= MaxCols
MatrixInputs ==
    {<< <<>> >>} \cup
    UNION {[1..R -> [1..C -> MatrixItems]] : R \in 1..MaxRows, C \in 1..MaxCols}

InitTranspose ==
    \E matrix \in MatrixInputs : LibInit(matrix) /\ TowerInit(<<>>, "call")

TransposeCall(name, result) ==
    /\ pc = "call"
    /\ call' = name
    /\ ret' = result
    /\ pc' = "returned"
    /\ UNCHANGED <<jetVars, field, rocks_dropped, d2h, cycleVars, dropVars,
                   untilVars, queryVars, directVars, arg0, arg>>

TransposedCall == TransposeCall("AoCLib.transposed", transposed(arg))

MiscellaneousTransposedCall ==
    TransposeCall("Miscellaneous.transposed", Miscellaneous_transposed(arg))

MatricesTransposeCall == TransposeCall("Matrices.transpose", transpose(arg))

NextTranspose ==
    \/ TransposedCall
    \/ MiscellaneousTransposedCall
    \/ MatricesTransposeCall

SpecTranspose == InitTranspose /\ [][NextTranspose]_vars

\* ------------------------------------------------------------------------
\* AoCLib/Matrices.py: transpose_strings, rotate_90_strings, rotate_90, and
\* the round trips its __main__ block asserts. A str is kept as the sequence
\* of its characters' code points; a character on its own is a str of
\* length 1.
\* ------------------------------------------------------------------------
\* lst[::-1]
Reversed(lst) == [i \in 1..Len(lst) |-> lst[Len(lst) + 1 - i]]

\* iterating a str yields its characters, each a str of length 1
CharsOf(string) == [i \in 1..Len(string) |-> <<string[i]>>]

\* ''.join(chars)
RECURSIVE Joined(_)
Joined(chars) ==
    IF chars = <<>> THEN <<>> ELSE Head(chars) \o Joined(Tail(chars))

\* [''.join(chars) for chars in zip(*strings)]
JoinedColumns(strings) ==
    LET tuples == zip([r \in 1..Len(strings) |-> CharsOf(strings[r])])
    IN  [k \in 1..Len(tuples) |-> Joined(tuples[k])]

transpose_strings(strings) ==
    IF Len(strings) = 0 THEN <<>> ELSE JoinedColumns(strings)

rotate_90_strings(strings, clockwise) ==
    IF Len(strings) = 0 THEN <<>>
    ELSE IF clockwise THEN JoinedColumns(Reversed(strings))
         ELSE Reversed(JoinedColumns(strings))

\* mutant of rotate_90: the clockwise flag is not looked at
rotate_90_always_clockwise(matrix, clockwise) ==
    IF matrix = << <<>> >> THEN << <<>> >>
    ELSE LET tuples == zip(Reversed(matrix))
         IN  [k \in 1..Len(tuples) |-> tuples[k]]

rotate_90(matrix, clockwise) ==
    IF matrix = << <<>> >> THEN << <<>> >>
    ELSE IF clockwise
         THEN LET tuples == zip(Reversed(matrix))
              IN  [k \in 1..Len(tuples) |-> tuples[k]]
         ELSE LET tuples == zip(matrix)
              IN  Reversed([k \in 1..Len(tuples) |-> tuples[k]])

StringChars == {97, 98}     \* 'a', 'b'

\* every list of 1..MaxRows strings of one length in 1..MaxCols
StringsInputs ==
    UNION {[1..R -> [1..C -> StringChars]] : R \in 1..MaxRows, C \in 1..MaxCols}

InitMatrices ==
    \E x \in MatrixInputs \cup StringsInputs :
        LibInit(x) /\ TowerInit(<<>>, "call")

\* a first call on the input, and a second call on the first one's result
FirstCall(name, result) ==
    /\ pc = "call"
    /\ call' = name
    /\ ret' = result
    /\ pc' = "returned"
    /\ UNCHANGED <<jetVars, field, rocks_dropped, d2h, cycleVars, dropVars,
                   untilVars, queryVars, directVars, arg0, arg>>

SecondCall(first, name, result) ==
    /\ pc = "returned"
    /\ call = first
    /\ call' = name
    /\ ret' = result
    /\ pc' = "twice"
    /\ UNCHANGED <<jetVars, field, rocks_dropped, d2h, cycleVars, dropVars,
                   untilVars, queryVars, directVars, arg0, arg>>

TransposeFirst ==
    arg \in MatrixInputs /\ FirstCall("transpose", transpose(arg))

TransposeSecond ==
    SecondCall("transpose", "transpose twice", transpose(ret))

TransposeStringsFirst ==
    /\ arg \in StringsInputs
    /\ FirstCall("transpose_strings", transpose_strings(arg))

TransposeStringsSecond ==
    SecondCall("transpose_strings", "transpose_strings twice",
               transpose_strings(ret))

Rotate90Clockwise ==
    arg \in MatrixInputs /\ FirstCall("rotate_90 cw", rotate_90(arg, TRUE))

Rotate90CounterClockwise ==
    arg \in MatrixInputs /\ FirstCall("rotate_90 ccw", rotate_90(arg, FALSE))

Rotate90Back ==
    \/ SecondCall("rotate_90 cw", "rotate_90 cw ccw", rotate_90(ret, FALSE))
    \/ SecondCall("rotate_90 ccw", "rotate_90 ccw cw", rotate_90(ret, TRUE))

Rotate90StringsClockwise ==
    /\ arg \in StringsInputs
    /\ FirstCall("rotate_90_strings cw", rotate_90_strings(arg, TRUE))

Rotate90StringsCounterClockwise ==
    /\ arg \in StringsInputs
    /\ FirstCall("rotate_90_strings ccw", rotate_90_strings(arg, FALSE))

Rotate90StringsBack ==
    \/ SecondCall("rotate_90_strings cw", "rotate_90_strings cw ccw",
                  rotate_90_strings(ret, FALSE))
    \/ SecondCall("rotate_90_strings ccw", "rotate_90_strings ccw cw",
                  rotate_90_strings(ret, TRUE))

NextMatrices ==
    \/ TransposeFirst
    \/ TransposeSecond
    \/ TransposeStringsFirst
    \/ TransposeStringsSecond
    \/ Rotate90Clockwise
    \/ Rotate90CounterClockwise
    \/ Rotate90Back
    \/ Rotate90StringsClockwise
    \/ Rotate90StringsCounterClockwise
    \/ Rotate90StringsBack

SpecMatrices == InitMatrices /\ [][NextMatrices]_vars

\* ------------------------------------------------------------------------
\* AoCLib/Sets.py (the same two functions are in AoCLib.py and
\* AoCLib/Miscellaneous.py): reduce(lambda s1, s2: ..., sets) with no initial
\* value folds from the left, starting with sets[0]
\* ------------------------------------------------------------------------
\* reduce(lambda s1, s2: s1.union(s2), rest, s1)
RECURSIVE ReduceUnion(_, _)
ReduceUnion(s1, rest) ==
    IF rest = <<>> THEN s1 ELSE ReduceUnion(s1 \cup Head(rest), Tail(rest))

union_all(sets) == ReduceUnion(Head(sets), Tail(sets))

\* reduce(lambda s1, s2: s1.intersection(s2), rest, s1)
RECURSIVE ReduceIntersection(_, _)
ReduceIntersection(s1, rest) ==
    IF rest = <<>> THEN s1
    ELSE ReduceIntersection(s1 \cap Head(rest), Tail(rest))

\* mutant of intersect_all: the fold starts from an empty set
intersect_all_from_empty(sets) == ReduceIntersection({}, sets)

intersect_all(sets) == ReduceIntersection(Head(sets), Tail(sets))

SetItems == 0..2

SetsInputs == UNION {[1..len -> SUBSET SetItems] : len \in 1..MaxSets}

InitSets == \E sets \in SetsInputs : LibInit(sets) /\ TowerInit(<<>>, "call")

SetsCall(name, result) ==
    /\ pc = "call"
    /\ call' = name
    /\ ret' = result
    /\ pc' = "returned"
    /\ UNCHANGED <<jetVars, field, rocks_dropped, d2h, cycleVars, dropVars,
                   untilVars, queryVars, directVars, arg0, arg>>

UnionAllCall == SetsCall("union_all", union_all(arg))

IntersectAllCall == SetsCall("intersect_all", intersect_all(arg))

NextSets == UnionAllCall \/ IntersectAllCall

SpecSets == InitSets /\ [][NextSets]_vars

\* ------------------------------------------------------------------------
\* solve_all.py: aoc_modules imports the scripts that glob finds and sorts
\* the modules by int(m.__name__[4:6]); solve_all calls main() of each.
\* A file name is the sequence of its characters.
\* ------------------------------------------------------------------------
Day1File == <<"D", "a", "y", " ", "1", " ", "-", " ", "C", ".", "p", "y">>

Day2File == <<"D", "a", "y", " ", "2", " ", "-", " ", "R", ".", "p", "y">>

Day10File == <<"D", "a", "y", " ", "1", "0", " ", "-", " ", "C", ".", "p", "y">>

Day12File == <<"D", "a", "y", " ", "1", "2", " ", "-", " ", "H", ".", "p", "y">>

Day12ShortFile == <<"D", "a", "y", " ", "1", "2", ".", "p", "y">>

ScriptFiles == {Day1File, Day2File, Day10File, Day12File, Day12ShortFile}

\* the orders in which glob.iglob can yield up to MaxModules of the files
GlobResults ==
    {files \in UNION {[1..len -> ScriptFiles] : len \in 0..MaxModules} :
        \A i, j \in 1..Len(files) : i # j => files[i] # files[j]}

DigitValue ==
    [c \in {"0", "1", "2", "3", "4", "5", "6", "7", "8", "9"} |->
        CASE c = "0" -> 0 [] c = "1" -> 1 [] c = "2" -> 2 [] c = "3" -> 3
          [] c = "4" -> 4 [] c = "5" -> 5 [] c = "6" -> 6 [] c = "7" -> 7
          [] c = "8" -> 8 [] c = "9" -> 9]

\* int(text): white space around the digits is ignored
RECURSIVE int(_)
int(text) ==
    IF text[1] = " " THEN int(Tail(text))
    ELSE IF text[Len(text)] = " " THEN int(SubSeq(text, 1, Len(text) - 1))
    ELSE IF Len(text) = 1 THEN DigitValue[text[1]]
    ELSE 10 * int(SubSeq(text, 1, Len(text) - 1)) + DigitValue[text[Len(text)]]

\* key=lambda m: int(m.__name__[4:6])
module_key(name) == int(Slice(name, 4, 6))

\* sorted(..., key=...) is stable: a module comes behind the modules with a
\* smaller key and those with the same key discovered before it
PlaceByKey(modules, i) ==
    Cardinality({j \in 1..Len(modules) :
                    \/ module_key(modules[j]) < module_key(modules[i])
                    \/ module_key(modules[j]) = module_key(modules[i]) /\ j <= i})

SortedByKey(modules) ==
    [place \in 1..Len(modules) |->
        modules[CHOOSE i \in 1..Len(modules) : PlaceByKey(modules, i) = place]]

\* import_module(script_file[:-3]) for script_file in glob.iglob(pattern)
Imported(files) == [i \in 1..Len(files) |-> Slice(files[i], 0, -3)]

\* mutant of aoc_modules: the modules are returned in the order of discovery
aoc_modules_unsorted(files) == Imported(files)

aoc_modules(files) == SortedByKey(Imported(files))

InitSolveAll ==
    \E files \in GlobResults : LibInit(files) /\ TowerInit(<<>>, "call")

\* for module in aoc_modules(): arg holds the modules, ret the modules whose
\* main() has been called
AocModules ==
    /\ pc = "call"
    /\ call' = "solve_all"
    /\ arg' = aoc_modules(arg)
    /\ pc' = "loop"
    /\ UNCHANGED <<jetVars, field, rocks_dropped, d2h, cycleVars, dropVars,
                   untilVars, queryVars, directVars, arg0, ret>>

\* module.main() is called
MainCalled ==
    /\ pc = "loop"
    /\ Len(ret) < Len(arg)
    /\ ret' = Append(ret, arg[Len(ret) + 1])
    /\ pc' = "main"
    /\ UNCHANGED <<jetVars, field, rocks_dropped, d2h, cycleVars, dropVars,
                   untilVars, queryVars, directVars, call, arg0, arg>>

\* module.main() returns
MainReturned ==
    /\ pc = "main"
    /\ pc' = "loop"
    /\ UNCHANGED <<jetVars, field, rocks_dropped, d2h, cycleVars, dropVars,
                   untilVars, queryVars, directVars, libVars>>

\* the for loop is exhausted
SolveAllDone ==
    /\ pc = "loop"
    /\ Len(ret) = Len(arg)
    /\ pc' = "returned"
    /\ UNCHANGED <<jetVars, field, rocks_dropped, d2h, cycleVars, dropVars,
                   untilVars, queryVars, directVars, libVars>>

NextSolveAll == AocModules \/ MainCalled \/ MainReturned \/ SolveAllDone

\* solve_all runs on one thread
SpecSolveAll == InitSolveAll /\ [][NextSolveAll]_vars /\ WF_vars(NextSolveAll)

\* ------------------------------------------------------------------------
\* Day 12: Maze.find_shortest_path with AscendingStrategy and
\* DescendingToLowestLevel. A coordinate is (x, y); matrix[y][x] of the code
\* is matrix[y + 1][x + 1] here.
\* ------------------------------------------------------------------------
coordinate_value(matrix, coordinate) ==
    matrix[coordinate[2] + 1][coordinate[1] + 1]

_is_ongrid(matrix, coordinate) ==
    /\ 0 <= coordinate[1]
    /\ coordinate[1] < Len(matrix[1])
    /\ 0 <= coordinate[2]
    /\ coordinate[2] < Len(matrix)

\* mutant of height_validator: the climbing flag is not looked at
height_validator_always_climbing(matrix, current, neighbor, climbing) ==
    coordinate_value(matrix, neighbor) - coordinate_value(matrix, current) <= 1

height_validator(matrix, current, neighbor, climbing) ==
    LET current_value == coordinate_value(matrix, current)
        neighbor_value == coordinate_value(matrix, neighbor)
    IN  IF climbing THEN neighbor_value - current_value <= 1
        ELSE current_value - neighbor_value <= 1

\* neighbor_ok of the two strategies: not visited, on the grid, not too steep
neighbor_ok(maze, visited, current, neighbor) ==
    /\ neighbor \notin visited
    /\ _is_ongrid(maze.matrix, neighbor)
    /\ height_validator(maze.matrix, current, neighbor,
                        maze.strategy = "AscendingStrategy")

\* finish_reached: the finish position, or a square of height ord("a")
finish_reached(maze, coordinate) ==
    IF maze.strategy = "AscendingStrategy"
    THEN coordinate = maze.finish_pos
    ELSE coordinate_value(maze.matrix, coordinate) = 97

get_neigbors(maze, visited, current) ==
    SelectSeq(<< <<current[1] - 1, current[2]>>, <<current[1] + 1, current[2]>>,
                 <<current[1], current[2] - 1>>, <<current[1], current[2] + 1>> >>,
              LAMBDA neighbor : neighbor_ok(maze, visited, current, neighbor))

\* the for loop over the neighbors of the coordinate taken from the queue;
\* puts lists the coordinates handed to paths_queue.put, found the value
\* returned from inside the loop
RECURSIVE ForNeighbors(_, _, _, _)
ForNeighbors(maze, search, neighbors, current_steps) ==
    IF neighbors = <<>> THEN search
    ELSE IF finish_reached(maze, Head(neighbors))
         THEN [search EXCEPT !.found = <<current_steps + 1>>]
         ELSE ForNeighbors(maze,
                  [search EXCEPT
                      !.visited = @ \cup {Head(neighbors)},
                      !.paths_queue = Append(@, <<Head(neighbors),
                                                  current_steps + 1>>),
                      !.puts = Append(@, Head(neighbors))],
                  Tail(neighbors), current_steps)

MazeLevels == {97, 98, 99}

MazeMatrices == [1..MazeRows -> [1..MazeCols -> MazeLevels]]

MazeCoordinates == (0..(MazeCols - 1)) \X (0..(MazeRows - 1))

\* main searches from S to E, two different squares, and from E, a square
\* of height ord("z"), to any square of height ord("a")
MazeInputs ==
    {maze \in {[matrix |-> m, strategy |-> "AscendingStrategy",
                start_pos |-> s, finish_pos |-> f] :
                   m \in MazeMatrices, s \in MazeCoordinates,
                   f \in MazeCoordinates} :
        maze.start_pos # maze.finish_pos}
    \cup
    {maze \in {[matrix |-> m, strategy |-> "DescendingToLowestLevel",
                start_pos |-> s, finish_pos |-> s] :
                   m \in MazeMatrices, s \in MazeCoordinates} :
        coordinate_value(maze.matrix, maze.start_pos) # 97}

InitMaze == \E maze \in MazeInputs : LibInit(maze) /\ TowerInit(<<>>, "call")

\* register_visit(start_pos); paths_queue.put((start_pos, 0))
FindShortestPath ==
    /\ pc = "call"
    /\ call' = "find_shortest_path"
    /\ arg' = [visited |-> {arg0.start_pos},
               paths_queue |-> << <<arg0.start_pos, 0>> >>,
               puts |-> <<arg0.start_pos>>,
               found |-> <<>>]
    /\ pc' = "search"
    /\ UNCHANGED <<jetVars, field, rocks_dropped, d2h, cycleVars, dropVars,
                   untilVars, queryVars, directVars, arg0, ret>>

\* one turn of the while loop: paths_queue.get() and the for loop
PathsQueueGet ==
    /\ pc = "search"
    /\ arg.paths_queue # <<>>
    /\ LET current_coordinate == Head(arg.paths_queue)[1]
           current_steps == Head(arg.paths_queue)[2]
           search == ForNeighbors(arg0,
                         [arg EXCEPT !.paths_queue = Tail(@)],
                         get_neigbors(arg0, arg.visited, current_coordinate),
                         current_steps)
       IN  /\ arg' = search
           /\ IF search.found # <<>>
              THEN /\ ret' = [none |-> FALSE, steps |-> search.found[1]]
                   /\ pc' = "returned"
              ELSE UNCHANGED <<ret, pc>>
    /\ UNCHANGED <<jetVars, field, rocks_dropped, d2h, cycleVars, dropVars,
                   untilVars, queryVars, directVars, call, arg0>>

\* the queue is empty: return None
PathsQueueEmpty ==
    /\ pc = "search"
    /\ arg.paths_queue = <<>>
    /\ ret' = [none |-> TRUE, steps |-> 0]
    /\ pc' = "returned"
    /\ UNCHANGED <<jetVars, field, rocks_dropped, d2h, cycleVars, dropVars,
                   untilVars, queryVars, directVars, call, arg0, arg>>

NextMaze == FindShortestPath \/ PathsQueueGet \/ PathsQueueEmpty

SpecMaze == InitMaze /\ [][NextMaze]_vars

\* ------------------------------------------------------------------------
\* Day 13: Packet.__gt__ of __Day13.py and compare of the later version.
\* isinstance is modelled by the field a value has: [int |-> n] is an
\* integer, [list |-> <<...>>] a list.
\* ------------------------------------------------------------------------
IsInt(x) == "int" \in DOMAIN x

AnInt(k) == [int |-> k]

AList(items) == [list |-> items]

RECURSIVE inner(_, _, _)
RECURSIVE ZipLongestLoop(_, _, _, _)

\* for i, j in zip_longest(left, right, fillvalue=sentinel), from pair at on
ZipLongestLoop(flags, left, right, at) ==
    IF at > Max(Len(left), Len(right)) \/ flags.done THEN flags
    ELSE IF at > Len(left) THEN [done |-> TRUE, result |-> TRUE]
    ELSE IF at > Len(right) THEN [done |-> TRUE, result |-> FALSE]
    ELSE ZipLongestLoop(inner(flags, left[at], right[at]), left, right, at + 1)

\* inner(left, right) of __gt__, with the nonlocal done and result as flags
inner(flags, left, right) ==
    IF flags.done THEN flags
    ELSE IF IsInt(left) /\ IsInt(right)
         THEN IF left.int # right.int
              THEN [done |-> TRUE, result |-> left.int < right.int]
              ELSE flags
    ELSE IF IsInt(left) THEN inner(flags, AList(<<left>>), right)
    ELSE IF IsInt(right) THEN inner(flags, left, AList(<<right>>))
    ELSE ZipLongestLoop(flags, left.list, right.list, 1)

\* mutant of __gt__: result is returned as it is
__gt___result_returned(self, other) ==
    inner([done |-> FALSE, result |-> TRUE], self, other).result

__gt__(self, other) ==
    ~ inner([done |-> FALSE, result |-> TRUE], self, other).result

RECURSIVE compare(_, _)
RECURSIVE MapCompareLoop(_, _, _)

\* for z in map(compare, left, right): if z: return z
\* return compare(len(left), len(right))
MapCompareLoop(left, right, at) ==
    IF at > Min(Len(left), Len(right))
    THEN compare(AnInt(Len(left)), AnInt(Len(right)))
    ELSE LET z == compare(left[at], right[at])
         IN  IF z # 0 THEN z ELSE MapCompareLoop(left, right, at + 1)

compare(left, right) ==
    IF IsInt(left) /\ IsInt(right)
    THEN (IF left.int > right.int THEN 1 ELSE 0)
             - (IF left.int < right.int THEN 1 ELSE 0)
    ELSE IF IsInt(left) THEN compare(AList(<<left>>), right)
    ELSE IF IsInt(right) THEN compare(left, AList(<<right>>))
    ELSE MapCompareLoop(left.list, right.list, 1)

PacketInts == {AnInt(k) : k \in 0..MaxPacketInt}

InnerLists ==
    {AList(items) : items \in UNION {[1..len -> PacketInts] : len \in 0..MaxInnerLen}}

\* a packet is a list of integers and of lists of integers
Packets ==
    {AList(items) :
        items \in UNION {[1..len -> PacketInts \cup InnerLists] :
                            len \in 0..MaxPacketLen}}

InitPackets ==
    \E left \in Packets, right \in Packets :
        LibInit([left |-> left, right |-> right]) /\ TowerInit(<<>>, "call")

PacketsCall(name, result) ==
    /\ pc = "call"
    /\ call' = name
    /\ ret' = result
    /\ pc' = "returned"
    /\ UNCHANGED <<jetVars, field, rocks_dropped, d2h, cycleVars, dropVars,
                   untilVars, queryVars, directVars, arg0, arg>>

\* Packet(left) > Packet(right)
PacketGt == PacketsCall("__gt__", __gt__(arg.left, arg.right))

CompareCall == PacketsCall("compare", compare(arg.left, arg.right))

NextPackets == PacketGt \/ CompareCall

SpecPackets == InitPackets /\ [][NextPackets]_vars

\* ------------------------------------------------------------------------
\* Day 10: CPU.start with the two listeners main registers. arg0 is the
\* program on the instruction bus, arg the CPU (registers[0], cycle count,
\* instructions fetched, the loop counters of __increment_cycles), ret the
\* callbacks made so far, each with the arguments it was given.
\* ------------------------------------------------------------------------
\* main: signal_strength_device = SignalStrengthListener(cpu); crt = CRT(cpu)
Listeners == <<"SignalStrengthListener", "CRT">>

\* mutant of instruction_cycles: addx is given one cycle
instruction_cycles_all_one(name) == 1

\* noop = CPUInstruction(cycles=1, ...); addx = CPUInstruction(cycles=2, ...)
instruction_cycles(name) == IF name = "addx" THEN 2 ELSE 1

\* noop_executor, addx_executor
executed(registers, instruction) ==
    IF instruction.name = "addx" THEN registers + instruction.params[1]
    ELSE registers

Instructions ==
    {[name |-> "noop", params |-> <<>>]}
    \cup {[name |-> "addx", params |-> <<v>>] : v \in {0 - 1, 2}}

Programs == UNION {[1..len -> Instructions] : len \in 0..MaxProgram}

InitCPU == \E program \in Programs : LibInit(program) /\ TowerInit(<<>>, "call")

\* CPU.__init__ and the call of start
CPUStart ==
    /\ pc = "call"
    /\ call' = "start"
    /\ arg' = [registers |-> 1, cycle_count |-> 0, fetched |-> 0, i |-> 0,
               listener |-> 0]
    /\ pc' = "fetch"
    /\ UNCHANGED <<jetVars, field, rocks_dropped, d2h, cycleVars, dropVars,
                   untilVars, queryVars, directVars, arg0, ret>>

\* while instruction := self.__fetch_instruction()
FetchInstruction ==
    /\ pc = "fetch"
    /\ IF arg.fetched < Len(arg0)
       THEN /\ arg' = [arg EXCEPT !.fetched = @ + 1, !.i = 0]
            /\ pc' = "tick"
       ELSE /\ pc' = "returned"
            /\ UNCHANGED arg
    /\ UNCHANGED <<jetVars, field, rocks_dropped, d2h, cycleVars, dropVars,
                   untilVars, queryVars, directVars, call, arg0, ret>>

\* for i in range(nr_to_add): self.__cycle_count += 1
IncrementCycle ==
    /\ pc = "tick"
    /\ IF arg.i < instruction_cycles(arg0[arg.fetched].name)
       THEN /\ arg' = [arg EXCEPT !.i = @ + 1, !.cycle_count = @ + 1,
                                  !.listener = 0]
            /\ pc' = "callback"
       ELSE /\ pc' = "execute"
            /\ UNCHANGED arg
    /\ UNCHANGED <<jetVars, field, rocks_dropped, d2h, cycleVars, dropVars,
                   untilVars, queryVars, directVars, call, arg0, ret>>

\* for listener in self.__listeners: listener.callback(cycle_count, registers)
ListenerCallback ==
    /\ pc = "callback"
    /\ IF arg.listener < Len(Listeners)
       THEN /\ ret' = Append(ret, [listener |-> Listeners[arg.listener + 1],
                                   cycle_nr |-> arg.cycle_count,
                                   registers |-> arg.registers])
            /\ arg' = [arg EXCEPT !.listener = @ + 1]
            /\ UNCHANGED pc
       ELSE /\ pc' = "tick"
            /\ UNCHANGED <<arg, ret>>
    /\ UNCHANGED <<jetVars, field, rocks_dropped, d2h, cycleVars, dropVars,
                   untilVars, queryVars, directVars, call, arg0>>

\* self.__registers = instruction.execute(self.__registers)
ExecuteInstruction ==
    /\ pc = "execute"
    /\ arg' = [arg EXCEPT !.registers = executed(@, arg0[arg.fetched])]
    /\ pc' = "fetch"
    /\ UNCHANGED <<jetVars, field, rocks_dropped, d2h, cycleVars, dropVars,
                   untilVars, queryVars, directVars, call, arg0, ret>>

NextCPU ==
    \/ CPUStart
    \/ FetchInstruction
    \/ IncrementCycle
    \/ ListenerCallback
    \/ ExecuteInstruction

SpecCPU == InitCPU /\ [][NextCPU]_vars

TypeOK ==
    /\ pc \in {"until", "sideways", "down", "put", "ready", "answered",
               "error", "direct", "call", "returned", "twice", "loop", "main",
               "search", "fetch", "tick", "callback", "execute"}
    /\ \A i \in 1..Len(field) : field[i] \in 0..127
    /\ offset \in 0..Len(jets)

\* ------------------------------------------------------------------------
\* Properties
\* ------------------------------------------------------------------------
InFlight == pc \in {"sideways", "down", "put"}

Constructed == pc \in {"ready", "answered"}

\* jets consumed so far by the rock in flight: one per sideways attempt, and
\* the rock has made one attempt per row it came down plus the pending one
DropJets ==
    Len(field) - 1 - rock_start_offset + (IF pc = "sideways" THEN 0 ELSE 1)

\* C1: cycle establishment terminates for every non-empty jet pattern: the
\* construction never drops more than 2 x period rocks, and phase two never
\* runs past the jet count it waits for (past it, the loop cannot end).
C1_CycleEstablishmentTerminates ==
    Len(jets) > 0 =>
        /\ rocks_dropped <= 2 * jets_per_cycle
        /\ (cmp = "eq" => jets_yielded <= jet_offset)

\* C2: phase two starts with the target "jets yielded at the end of phase
\* one plus one period", keeps the target, drops another rock at every drop
\* boundary where the jets yielded differ from the target and stops at the
\* boundary where they are equal, setting drops_per_cycle to the rocks
\* dropped in phase two and height_per_cycle to height - height_before_cycle.
C2_PhaseTwoState ==
    /\ (cmp = "eq" /\ pc = "until" /\ rocks_dropped = drops_at_start
            => jet_offset = jets_yielded + jets_per_cycle)
    /\ (cmp = "eq" => drops_at_start = drops_before_cycles)
    /\ (Constructed =>
            /\ jets_yielded = jet_offset
            /\ cycle_drops = rocks_dropped - drops_before_cycles
            /\ cycle_drops >= 1
            /\ cycle_height = _height(field) - delta_height_before_cycles)

C2_PhaseTwoStep ==
    (cmp = "eq" /\ pc = "until") =>
        /\ jet_offset' = jet_offset
        /\ IF jets_yielded = jet_offset
           THEN /\ pc' = "ready"
                /\ rocks_dropped' = rocks_dropped
                /\ cycle_drops' = rocks_dropped - drops_before_cycles
                /\ cycle_height' = _height(field) - delta_height_before_cycles
           ELSE /\ pc' = "sideways"
                /\ rocks_dropped' = rocks_dropped + 1

C2_PhaseTwo == [](C2_PhaseTwoState) /\ [][C2_PhaseTwoStep]_vars

C2_Witness ==
    /\ pc = "ready"
    /\ cycle_drops >= 2
    /\ cycle_height >= 1
    /\ jets_yielded = jet_offset

\* C3: phase one drops one rock at a time; a rock is dropped only at a drop
\* boundary where fewer than period jets were yielded, and phase one ends at
\* the first boundary with jets yielded >= period, where drops_before_cycle
\* is the number of rocks dropped and height_before_cycle the height recorded
\* for that number of drops.
C3_PhaseOneState ==
    Len(jets) > 0 =>
        /\ (pc = "until" /\ rocks_dropped >= 1
                => d2h[rocks_dropped] = _height(field))
        /\ (cmp = "ge" /\ InFlight => jets_yielded - DropJets < jets_per_cycle)
        /\ (cmp = "eq" =>
                /\ drops_before_cycles >= 1
                /\ drops_before_cycles <= rocks_dropped
                /\ delta_height_before_cycles = d2h[drops_before_cycles])

C3_PhaseOneStep ==
    (Len(jets) > 0 /\ cmp = "ge" /\ pc = "until") =>
        IF jets_yielded >= jets_per_cycle
        THEN /\ cmp' = "eq"
             /\ rocks_dropped' = rocks_dropped
             /\ drops_before_cycles' = rocks_dropped
             /\ delta_height_before_cycles' = d2h[rocks_dropped]
        ELSE /\ pc' = "sideways"
             /\ rocks_dropped' = rocks_dropped + 1
             /\ cmp' = "ge"

C3_PhaseOne == [](C3_PhaseOneState) /\ [][C3_PhaseOneStep]_vars

C3_Witness ==
    /\ pc = "until"
    /\ cmp = "eq"
    /\ rocks_dropped = drops_before_cycles
    /\ drops_before_cycles >= 3
    /\ jets_yielded >= jets_per_cycle

\* C4: get_tallest_tower(N) returns height_before_cycle + q * height_per_cycle
\* + (recorded_height[drops_before_cycle + r] - height_before_cycle) with
\* (q, r) = divmod(N - drops_before_cycle, drops_per_cycle).
C4_TallestTowerFormula ==
    /\ (pc = "answered" /\ nr_drops.hi = 0) =>
          LET N == nr_drops.lo
              q == (N - drops_before_cycles) \div cycle_drops
              r == (N - drops_before_cycles) % cycle_drops
          IN  tallest = ToBig(delta_height_before_cycles + q * cycle_height
                              + (d2h[drops_before_cycles + r]
                                 - delta_height_before_cycles))
    \* for every queried N, 10^12 included: (q, r) is the divmod, that is
    \* q * drops_per_cycle + r = N - drops_before_cycle with 0 <= r < drops_per_cycle
    /\ pc = "answered" =>
          LET a == BigAddInt(nr_drops, 0 - drops_before_cycles)
              dm == BigDivMod(a, cycle_drops)
          IN  /\ dm.r \in 0..(cycle_drops - 1)
              /\ BigAddInt(BigMulInt(dm.q, cycle_drops), dm.r) = a
              /\ tallest = BigAddInt(BigMulInt(dm.q, cycle_height),
                                     d2h[drops_before_cycles + dm.r])

C4_Witness ==
    /\ pc = "answered"
    /\ nr_drops.hi = 0
    /\ nr_drops.lo > drops_before_cycles + cycle_drops
    /\ (nr_drops.lo - drops_before_cycles) % cycle_drops # 0
    /\ tallest.lo > delta_height_before_cycles + cycle_height

\* number of occupied cells of a list of row masks
RECURSIVE Cells(_)
Cells(rows) == IF rows = <<>> THEN 0 ELSE PopCount(Head(rows)) + Cells(Tail(rows))

\* number of cells of the first k rocks dropped
RECURSIVE DroppedCells(_)
DroppedCells(k) ==
    IF k = 0 THEN 0 ELSE Cells(rocks[((k - 1) % 5) + 1]) + DroppedCells(k - 1)

Merges == IF InFlight THEN rocks_dropped - 1 ELSE rocks_dropped

\* C5: collision invariant: the field holds exactly the floor and the cells
\* of every merged rock (no cell is shared), and a rock about to be merged
\* lies on existing rows and overlaps no occupied cell of them.
C5_CollisionInvariant ==
    pc # "error" =>
        /\ Cells(field) = 7 + DroppedCells(Merges)
        /\ (pc = "put" =>
                /\ rock_start_offset >= 1
                /\ rock_start_offset + Len(rock) <= Len(field)
                /\ \A i \in 1..Len(rock) :
                      BitAnd(rock[i], field[rock_start_offset + i]) = 0)

\* a rock rests on an earlier rock, not on the floor, and is about to merge
C5_Witness ==
    /\ pc = "put"
    /\ rocks_dropped >= 6
    /\ rock_start_offset >= 2
    /\ field[rock_start_offset] # 0

\* C6: H(n) = get_tallest_tower(n) is non-decreasing in n.
C6_HeightMonotone ==
    Constructed =>
        \A a \in Queries : \A b \in Queries :
            BigLeq(a, b) => BigLeq(get_tallest_tower(a), get_tallest_tower(b))

\* two queried drop counts in consecutive extrapolated cycles
C6_Witness ==
    /\ pc = "answered"
    /\ nr_drops = ToBig(drops_before_cycles + 2 * cycle_drops)
    /\ ToBig(drops_before_cycles + 2 * cycle_drops - 1) \in Queries
    /\ BigLeq(get_tallest_tower(ToBig(drops_before_cycles + 2 * cycle_drops - 1)),
              tallest)

\* C7: cycle linearity law, H(drops_before_cycle + k * drops_per_cycle)
\* = height_before_cycle + k * height_per_cycle for k >= 0.
C7_CycleLinearity ==
    Constructed =>
        \A k \in 0..MaxK :
            get_tallest_tower(ToBig(drops_before_cycles + k * cycle_drops))
                = ToBig(delta_height_before_cycles + k * cycle_height)

C7_Witness ==
    /\ pc = "answered"
    /\ cycle_drops # cycle_height
    /\ \E k \in 1..MaxK :
          /\ nr_drops = ToBig(drops_before_cycles + k * cycle_drops)
          /\ tallest = ToBig(delta_height_before_cycles + k * cycle_height)

\* C8: with the published example jet pattern the literal simulation of 2022
\* drops gives 3068, H(2022) = 3068 and H(1_000_000_000_000)
\* = 1_514_285_714_288.
C8_ReferenceScenario ==
    /\ (pc # "direct" => solution_1 = 3068)
    /\ (pc = "answered" /\ nr_drops = ToBig(2022) => tallest = ToBig(3068))
    /\ (pc = "answered" /\ nr_drops = BigDrops
            => tallest = [hi |-> 1514285, lo |-> 714288])

C8_Witness ==
    /\ pc = "answered"
    /\ jets = TestJets
    /\ n = DirectDrops
    /\ solution_1 = 3068
    /\ nr_drops = BigDrops
    /\ tallest.hi = 1514285

\* C9: floor invariant: row 0 of the field exists and is 127 in every state.
C9_FloorInvariant == Len(field) >= 1 /\ field[1] = 127

\* a rock lies directly on the floor and rocks have been merged above it
C9_Witness ==
    /\ pc = "until"
    /\ rocks_dropped >= 2
    /\ Len(field) >= 3
    /\ field[1] = 127
    /\ field[2] # 0

\* C10: jet cursor contract: after k calls of next() the offset is
\* k mod length, jets_yielded is k and the symbol returned last is
\* jets[(k - 1) mod length]; every step leaves the pattern alone and raises
\* jets_yielded by at most 1, never lowering it.
C10_CursorState ==
    Len(jets) > 0 =>
        /\ offset = jets_yielded % Len(jets)
        /\ (jets_yielded >= 1
                => direction = jets[((jets_yielded - 1) % Len(jets)) + 1])

C10_CursorStep ==
    /\ jets' = jets
    /\ jets_yielded' \in {jets_yielded, jets_yielded + 1}
    /\ (jets_yielded' = jets_yielded + 1 <=> pc = "sideways" /\ pc' = "down")

C10_JetCursor == [](C10_CursorState) /\ [][C10_CursorStep]_vars

\* the cursor has wrapped at least twice on a pattern of several symbols
C10_Witness ==
    /\ Len(jets) >= 2
    /\ jets_yielded > 2 * Len(jets)
    /\ offset = 1
    /\ direction = jets[1]

\* index of the topmost non-empty row of a field whose row 0 is the floor
TopmostRow(f) == CHOOSE h \in 0..(Len(f) - 1) :
                    f[h + 1] # 0 /\ \A i \in (h + 2)..Len(f) : f[i] = 0

\* C11: _prepare_drop leaves exactly 4 empty rows above the topmost
\* non-empty row (the rows below are untouched), returns the index of the top
\* row (height + 4) as start offset, raises the drop counter by exactly 1 and
\* returns the unshifted shape number (previous drop count mod 5).
C11_PrepareDropStep ==
    (pc = "until" /\ pc' = "sideways") =>
        LET h == TopmostRow(field)
        IN  /\ rock_start_offset' = h + 4
            /\ rock_start_offset' = Len(field') - 1
            /\ Len(field') = h + 5
            /\ \A i \in 1..(h + 1) : field'[i] = field[i]
            /\ \A i \in (h + 2)..(h + 5) : field'[i] = 0
            /\ rocks_dropped' = rocks_dropped + 1
            /\ rock' = rocks[(rocks_dropped % 5) + 1]

C11_PrepareDrop == [][C11_PrepareDropStep]_vars

\* the sixth rock has just been prepared: the first shape comes round again,
\* above a tower of several rows
C11_Witness ==
    /\ pc = "sideways"
    /\ rocks_dropped = 6
    /\ rock = <<30>>
    /\ rock_start_offset = Len(field) - 1
    /\ Len(field) >= 9
    /\ field[Len(field) - 4] # 0

\* the field rows spanned by the rock in flight (rows above the field's top
\* row do not exist and hold nothing)
SpannedRow(i) ==
    IF rock_start_offset + i <= Len(field) THEN field[rock_start_offset + i] ELSE 0

ShiftAllowed(dir) ==
    IF dir = ">"
    THEN /\ \A i \in 1..Len(rock) : rock[i] % 2 = 0
         /\ \A i \in 1..Len(rock) : BitAnd(rock[i] \div 2, SpannedRow(i)) = 0
    ELSE /\ \A i \in 1..Len(rock) : rock[i] < 64
         /\ \A i \in 1..Len(rock) : BitAnd(rock[i] * 2, SpannedRow(i)) = 0

\* C12: a jet shifts the rock by exactly one column in its direction if and
\* only if no cell of the rock lies in the boundary column on that side and
\* the shifted rock overlaps no occupied cell of the rows it spans; otherwise
\* the rock is unchanged. The rock stays within the 7 columns and keeps its
\* number of cells.
C12_ShiftStep ==
    (pc = "sideways" /\ pc' = "down") =>
        LET dir == jets[offset + 1]
        IN  IF ShiftAllowed(dir)
            THEN \A i \in 1..Len(rock) :
                    rock'[i] = IF dir = ">" THEN rock[i] \div 2 ELSE rock[i] * 2
            ELSE rock' = rock

C12_RockState ==
    InFlight =>
        /\ \A i \in 1..Len(rock) : rock[i] \in 1..127
        /\ Cells(rock) = Cells(rocks[((rocks_dropped - 1) % 5) + 1])

C12_SidewaysRule == [](C12_RockState) /\ [][C12_ShiftStep]_vars

\* a rock away from both walls has just been refused a shift by the tower
C12_Witness ==
    /\ pc = "down"
    /\ direction = "<"
    /\ \A i \in 1..Len(rock) : rock[i] < 64
    /\ \E i \in 1..Len(rock) : BitAnd(rock[i] * 2, SpannedRow(i)) # 0

\* C13: a rock with a row spanning the full shaft (row mask 127) never
\* shifts sideways: both boundary checks reject it, whatever the field holds
\* and whichever way the jet blows.
C13_FullWidthNeverShifts ==
    (pc = "returned" /\ \E i \in 1..Len(arg0.rk) : arg0.rk[i] = 127) =>
        /\ ret = arg0.rk
        /\ ~ _all_leftmost_bit_cleared(arg0.rk)
        /\ ~ _all_rightmost_bit_cleared(arg0.rk)
        /\ ~ _can_move_to_left(arg0.rk, Slice(arg0.f, 1, 1 + Len(arg0.rk)))
        /\ ~ _can_move_to_right(arg0.rk, Slice(arg0.f, 1, 1 + Len(arg0.rk)))

\* a rock with one full row and one narrow row, over empty field rows, has
\* been blown to the left and stayed
C13_Witness ==
    /\ pc = "returned"
    /\ arg0.rk = <<127, 8>>
    /\ arg0.f = <<127, 0, 0>>
    /\ arg0.dir = "<"
    /\ ret = <<127, 8>>

\* the field row under row i of the falling rock (nothing above the top)
RowBelow(i) ==
    IF rock_start_offset + i - 1 <= Len(field)
    THEN field[rock_start_offset + i - 1] ELSE 0

\* jets consumed before the drop in flight began, by the drop's down-moves
JetsBeforeDrop == jets_yielded - DropJets

\* C14: in a drop every iteration first consumes exactly one jet for one
\* sideways attempt, shifted or not, and only then attempts one down-move;
\* the first failed down-move ends the drop and the rock is OR-ed into the
\* field at its current rows; so a drop consumes one jet more than it makes
\* successful down-moves.
C14_DropLoopStep ==
    /\ (pc = "until" /\ pc' = "sideways") =>
           /\ jets_yielded' = jets_yielded
           /\ DropJets' = 0
    /\ (pc = "sideways" /\ Len(jets) > 0) =>
           /\ pc' = "down"
           /\ jets_yielded' = jets_yielded + 1
           /\ direction' = jets[offset + 1]
           /\ field' = field
           /\ rock_start_offset' = rock_start_offset
           /\ JetsBeforeDrop' = JetsBeforeDrop
    /\ pc = "down" =>
           /\ jets_yielded' = jets_yielded
           /\ offset' = offset
           /\ rock' = rock
           /\ field' = field
           /\ JetsBeforeDrop' = JetsBeforeDrop
           /\ IF \A i \in 1..Len(rock) : BitAnd(rock[i], RowBelow(i)) = 0
              THEN pc' = "sideways" /\ rock_start_offset' = rock_start_offset - 1
              ELSE pc' = "put" /\ rock_start_offset' = rock_start_offset
    /\ pc = "put" =>
           /\ pc' = "until"
           /\ jets_yielded' = jets_yielded
           /\ jets_yielded = JetsBeforeDrop
                               + (Len(field) - 1 - rock_start_offset) + 1
           /\ Len(field') = Len(field)
           /\ \A r \in 1..Len(field) :
                  field'[r] =
                      IF r - rock_start_offset \in 1..Len(rock)
                      THEN BitOr(field[r], rock[r - rock_start_offset])
                      ELSE field[r]

C14_DropLoopOrdering == [][C14_DropLoopStep]_vars

\* a rock at rest after five successful down-moves, about to be merged, with
\* no room left to shift the way its last jet blew
C14_Witness ==
    /\ pc = "put"
    /\ Len(field) - 1 - rock_start_offset = 5
    /\ ~ ShiftAllowed(direction)

\* C15: the height is the index of the topmost non-empty row (0 when only
\* the floor is present), whatever the number of empty rows on top of the
\* field, and the scan stops within the field.
C15_Height ==
    /\ EmptyTopRows(field, 0) \in 0..(Len(field) - 1)
    /\ _height(field) = TopmostRow(field)
    /\ field[_height(field) + 1] # 0
    /\ \A i \in (_height(field) + 2)..Len(field) : field[i] = 0
    /\ _height(Trimmed(field)) = _height(field)
    /\ \A k \in 0..4 : _height(field \o [i \in 1..k |-> 0]) = _height(field)
    /\ Trimmed(field) = <<127>> => _height(field) = 0
    /\ (pc = "until" /\ rocks_dropped > 0) =>
           d2h[rocks_dropped] = TopmostRow(field)

\* a tower of height 5 or more with exactly two empty rows left on top
C15_Witness ==
    /\ pc = "until"
    /\ rocks_dropped > 0
    /\ Len(field) >= 8
    /\ field[Len(field)] = 0
    /\ field[Len(field) - 1] = 0
    /\ field[Len(field) - 2] # 0
    /\ d2h[rocks_dropped] = Len(field) - 3

\* successful down-moves of the rock in flight
DownMoves == Len(field) - 1 - rock_start_offset

EmptyPattern == Len(jets) = 0

C17_NothingEstablished ==
    EmptyPattern =>
        /\ pc \in {"until", "error"}
        /\ rocks_dropped = 0
        /\ d2h = <<>>
        /\ drops_before_cycles = 0
        /\ delta_height_before_cycles = 0
        /\ cycle_drops = 0
        /\ cycle_height = 0
        /\ tallest = ToBig(0)

C17_ConstructionStep == (EmptyPattern /\ pc = "until") => pc' = "error"

\* C17: with an empty jet pattern construction ends in an error: the cycle
\* descriptor is never set, no rock is dropped and no query is ever answered.
C17_EmptyPatternFails ==
    /\ [] C17_NothingEstablished
    /\ [][C17_ConstructionStep]_vars
    /\ (EmptyPattern ~> pc = "error")

\* the constructor has failed on the empty pattern at its first look-up
C17_Witness == EmptyPattern /\ pc = "error" /\ cmp = "ge" /\ jet_offset = 0

C18_QueryStep ==
    pc \in {"ready", "answered"} =>
        /\ pc' = "answered"
        /\ field' = field
        /\ offset' = offset
        /\ jets_yielded' = jets_yielded
        /\ rocks_dropped' = rocks_dropped
        /\ d2h' = d2h
        /\ cycleVars' = cycleVars
        /\ tallest' = get_tallest_tower(nr_drops')
        /\ \A N \in Queries : get_tallest_tower(N)' = get_tallest_tower(N)
        /\ (pc = "answered" /\ nr_drops' = nr_drops) => tallest' = tallest

\* C18: once the cycle is established a query is answered by calculation
\* alone: it leaves the field, the jet cursor, the drop counter, the drop
\* records and the cycle descriptor as they were, so the answer for each N
\* stays what it was at the first query, whatever is asked in between.
C18_QueriesChangeNothing ==
    /\ [][C18_QueryStep]_vars
    /\ [](pc = "answered" => tallest = get_tallest_tower(nr_drops))

\* a query for 2022 drops answered, the field left as the constructor left it
C18_Witness ==
    /\ pc = "answered"
    /\ nr_drops = ToBig(2022)
    /\ tallest.lo > 2022
    /\ rocks_dropped = drops_before_cycles + cycle_drops
    /\ cycle_drops > 0

Ascending(data) == \A i, j \in 1..Len(data) : i < j => data[i] <= data[j]

Occurrences(data, v) == Cardinality({i \in 1..Len(data) : data[i] = v})

Permutation(a, b) ==
    /\ Len(a) = Len(b)
    /\ \A v \in 0..MaxItem : Occurrences(a, v) = Occurrences(b, v)

C19_Sorted ==
    pc = "returned" =>
        /\ call \in {"InsertionSort", "BubbleSort", "MergeSort", "QuickSort"}
        /\ Ascending(arg)
        /\ Permutation(arg, arg0)
        /\ ret = <<>>

\* C19: each of the four sorters ends, on every list (empty, of one item,
\* with duplicates), and leaves the list it was given in ascending order and
\* a permutation of what it held.
C19_SortersSortInPlace == [] C19_Sorted /\ <>(pc = "returned")

\* QuickSort has sorted a descending list with a duplicate
C19_Witness ==
    /\ pc = "returned"
    /\ call = "QuickSort"
    /\ arg0 = <<2, 1, 1, 0>>
    /\ arg = <<0, 1, 1, 2>>

\* C20: each of the three functions returns the transpose: C rows of R items
\* with result[c][r] = matrix[r][c] for an R x C matrix, [[]] for [[]], the
\* argument left as it was, and the three results equal.
C20_Transpose ==
    pc = "returned" =>
        /\ arg = arg0
        /\ IF arg0 = << <<>> >>
           THEN ret = << <<>> >>
           ELSE /\ Len(ret) = Len(arg0[1])
                /\ \A c \in 1..Len(ret) :
                       /\ Len(ret[c]) = Len(arg0)
                       /\ \A r \in 1..Len(arg0) : ret[c][r] = arg0[r][c]
        /\ ret = transposed(arg0)
        /\ ret = Miscellaneous_transposed(arg0)
        /\ ret = transpose(arg0)

\* a 2 x 3 matrix transposed by zip into 3 rows of 2
C20_Witness ==
    /\ pc = "returned"
    /\ call = "Matrices.transpose"
    /\ arg0 = << <<0, 1, 1>>, <<0, 0, 1>> >>
    /\ ret = << <<0, 0>>, <<1, 0>>, <<1, 1>> >>

\* C21: transposing twice gives the matrix back, and so does transposing a
\* list of equal-length non-empty strings twice; the first transposition of
\* the strings puts character c of string r at character r of string c.
C21_TransposeInvolution ==
    /\ (pc = "twice" /\ call \in {"transpose twice", "transpose_strings twice"})
           => ret = arg0
    /\ (pc = "returned" /\ call = "transpose_strings") =>
           /\ Len(ret) = Len(arg0[1])
           /\ \A c \in 1..Len(ret) :
                  /\ Len(ret[c]) = Len(arg0)
                  /\ \A r \in 1..Len(arg0) : ret[c][r] = arg0[r][c]

\* ['abb', 'baa'] transposed twice
C21_Witness ==
    /\ pc = "twice"
    /\ call = "transpose_strings twice"
    /\ arg0 = << <<97, 98, 98>>, <<98, 97, 97>> >>
    /\ ret = arg0

\* rows and columns of the matrix handed in
R0 == Len(arg0)

C0 == Len(arg0[1])

\* the result is the C x R matrix with cell (r, c) of the argument at row c,
\* column R - 1 - r (counted from 0)
IsClockwiseOf(result, m) ==
    /\ Len(result) = Len(m[1])
    /\ \A c \in 1..Len(m[1]) :
           /\ Len(result[c]) = Len(m)
           /\ \A r \in 1..Len(m) : result[c][Len(m) + 1 - r] = m[r][c]

\* ... at row C - 1 - c, column r
IsCounterClockwiseOf(result, m) ==
    /\ Len(result) = Len(m[1])
    /\ \A c \in 1..Len(m[1]) :
           /\ Len(result[Len(m[1]) + 1 - c]) = Len(m)
           /\ \A r \in 1..Len(m) : result[Len(m[1]) + 1 - c][r] = m[r][c]

\* C22: rotate_90 and rotate_90_strings turn an R x C matrix into the C x R
\* matrix rotated clockwise or counter-clockwise, the opposite rotation of
\* the result gives the argument back, and the string version agrees with the
\* list version cell for cell.
C22_Rotate90 ==
    /\ (pc = "returned" /\ C0 >= 1
            /\ call \in {"rotate_90 cw", "rotate_90_strings cw"})
           => IsClockwiseOf(ret, arg0)
    /\ (pc = "returned" /\ C0 >= 1
            /\ call \in {"rotate_90 ccw", "rotate_90_strings ccw"})
           => IsCounterClockwiseOf(ret, arg0)
    /\ (pc = "twice"
            /\ call \in {"rotate_90 cw ccw", "rotate_90 ccw cw",
                         "rotate_90_strings cw ccw", "rotate_90_strings ccw cw"})
           => ret = arg0
    /\ (pc = "returned" /\ call = "rotate_90_strings cw")
           => \A i \in 1..C0 : \A j \in 1..R0 :
                  ret[i][j] = rotate_90(arg0, TRUE)[i][j]
    /\ (pc = "returned" /\ call = "rotate_90_strings ccw")
           => \A i \in 1..C0 : \A j \in 1..R0 :
                  ret[i][j] = rotate_90(arg0, FALSE)[i][j]

\* [[0, 1, 1], [0, 0, 1]] rotated counter-clockwise: [[1, 1], [1, 0], [0, 0]]
C22_Witness ==
    /\ pc = "returned"
    /\ call = "rotate_90 ccw"
    /\ arg0 = << <<0, 1, 1>>, <<0, 0, 1>> >>
    /\ ret = << <<1, 1>>, <<1, 0>>, <<0, 0>> >>

\* the orders the sets of a sequence of len sets can be handed in
Orders(len) ==
    {f \in [1..len -> 1..len] : \A i, j \in 1..len : i # j => f[i] # f[j]}

Reordered(sets, f) == [i \in 1..Len(sets) |-> sets[f[i]]]

\* C23: for a non-empty sequence of sets union_all is the set of the items
\* that are in at least one set, intersect_all the set of the items that are
\* in every set, whatever the order of the sets, and the sets handed in stay
\* as they were.
C23_UnionIntersect ==
    pc = "returned" =>
        /\ arg = arg0
        /\ call = "union_all" =>
               /\ ret = {x \in SetItems : \E i \in 1..Len(arg0) : x \in arg0[i]}
               /\ \A f \in Orders(Len(arg0)) :
                      union_all(Reordered(arg0, f)) = ret
        /\ call = "intersect_all" =>
               /\ ret = {x \in SetItems : \A i \in 1..Len(arg0) : x \in arg0[i]}
               /\ \A f \in Orders(Len(arg0)) :
                      intersect_all(Reordered(arg0, f)) = ret

\* three sets with exactly one item in common
C23_Witness ==
    /\ pc = "returned"
    /\ call = "intersect_all"
    /\ arg0 = <<{0, 1}, {1, 2}, {0, 1, 2}>>
    /\ ret = {1}

\* the day each script file is for
DayOf(file) ==
    CASE file = Day1File -> 1
      [] file = Day2File -> 2
      [] file = Day10File -> 10
      [] file = Day12File -> 12
      [] file = Day12ShortFile -> 12

\* the script file a module was imported from
FileOf(module) == CHOOSE file \in ScriptFiles : Slice(file, 0, -3) = module

C24_Order ==
    pc \in {"loop", "main", "returned"} =>
        /\ Len(arg) = Len(arg0)
        /\ \A i \in 1..Len(arg0) :
               Cardinality({j \in 1..Len(arg) : FileOf(arg[j]) = arg0[i]}) = 1
        /\ \A i, j \in 1..Len(arg) :
               i < j => DayOf(FileOf(arg[i])) <= DayOf(FileOf(arg[j]))
        /\ Len(ret) <= Len(arg)
        /\ ret = SubSeq(arg, 1, Len(ret))
        /\ pc = "returned" => ret = arg

C24_Step ==
    /\ ret' # ret => (pc = "loop" /\ pc' = "main"
                        /\ Len(ret') = Len(ret) + 1)
    /\ pc = "main" => (pc' = "loop" /\ ret' = ret)
    /\ pc \in {"loop", "main", "returned"} => arg' = arg

\* C24: solve_all calls main() of every discovered module exactly once, in
\* ascending order of day number whatever the order of discovery, each call
\* after the previous one has returned, and comes to its end.
C24_SolveAllInOrder ==
    /\ [] C24_Order
    /\ [][C24_Step]_vars
    /\ <>(pc = "returned")

\* days 10, 2 and 1 discovered in that order, all three solved, day 1 first
C24_Witness ==
    /\ pc = "returned"
    /\ arg0 = <<Day10File, Day2File, Day1File>>
    /\ Len(ret) = 3
    /\ FileOf(ret[1]) = Day1File
    /\ FileOf(ret[3]) = Day10File

\* a step the strategy of the maze searched allows: to a 4-neighbour on the
\* grid, at most one level up (ascending) or one level down (descending)
StepAllowed(from, to) ==
    /\ to \in MazeCoordinates
    /\ \/ (to[1] = from[1] /\ (to[2] - from[2]) \in {-1, 1})
       \/ (to[2] = from[2] /\ (to[1] - from[1]) \in {-1, 1})
    /\ LET rise == arg0.matrix[to[2] + 1][to[1] + 1]
                     - arg0.matrix[from[2] + 1][from[1] + 1]
       IN  IF arg0.strategy = "AscendingStrategy" THEN rise <= 1 ELSE rise >= -1

IsFinish(coordinate) ==
    IF arg0.strategy = "AscendingStrategy" THEN coordinate = arg0.finish_pos
    ELSE arg0.matrix[coordinate[2] + 1][coordinate[1] + 1] = 97

\* the squares exactly k steps away from the start, for growing k, until one
\* of them is a finish (the answer is k) or none is left (no answer: -1)
RECURSIVE FewestSteps(_, _, _)
FewestSteps(level, seen, k) ==
    IF \E c \in level : IsFinish(c) THEN k
    ELSE IF level = {} THEN 0 - 1
    ELSE LET next == {to \in MazeCoordinates \ seen :
                         \E from \in level : StepAllowed(from, to)}
         IN  FewestSteps(next, seen \cup next, k + 1)

\* C25: find_shortest_path returns the fewest steps the strategy allows from
\* its start to a finish square, None when no finish square can be reached,
\* and puts no square on the queue twice.
C25_ShortestPath ==
    /\ pc = "search" =>
           \A i, j \in 1..Len(arg.puts) : i # j => arg.puts[i] # arg.puts[j]
    /\ pc = "returned" =>
           LET fewest == FewestSteps({arg0.start_pos}, {arg0.start_pos}, 0)
           IN  /\ ret.none <=> fewest = 0 - 1
               /\ ~ ret.none => ret.steps = fewest
               /\ \A i, j \in 1..Len(arg.puts) :
                      i # j => arg.puts[i] # arg.puts[j]

\* the way straight down is too steep; the way round takes three steps
C25_Witness ==
    /\ pc = "returned"
    /\ arg0.strategy = "AscendingStrategy"
    /\ arg0.start_pos = <<0, 0>>
    /\ arg0.finish_pos = <<0, 1>>
    /\ arg0.matrix = << <<97, 98>>, <<99, 98>> >>
    /\ ret = [none |-> FALSE, steps |-> 3]

\* C26: Packet.__gt__ is true exactly when compare is positive, and a
\* packet is not greater than itself.
C26_PacketOrdering ==
    pc = "returned" =>
        /\ call = "__gt__" =>
               /\ ret <=> compare(arg0.left, arg0.right) > 0
               /\ arg0.left = arg0.right => ~ ret
        /\ call = "compare" =>
               /\ ret \in {0 - 1, 0, 1}
               /\ ret > 0 <=> __gt__(arg0.left, arg0.right)
               /\ arg0.left = arg0.right => ret = 0

\* [[1], 1] > [1, []]: the integer 1 is wrapped and equals [1], then 1 is
\* wrapped and the empty list is exhausted first
C26_Witness ==
    /\ pc = "returned"
    /\ call = "__gt__"
    /\ arg0.left = AList(<<AList(<<AnInt(1)>>), AnInt(1)>>)
    /\ arg0.right = AList(<<AnInt(1), AList(<<>>)>>)
    /\ ret = TRUE

\* the cycle in which instruction j of the program completes
RECURSIVE LastCycleOf(_)
LastCycleOf(j) ==
    IF j = 0 THEN 0
    ELSE LastCycleOf(j - 1) + (IF arg0[j].name = "addx" THEN 2 ELSE 1)

\* register 0 once the first j instructions have taken effect
RECURSIVE RegisterAfter(_)
RegisterAfter(j) ==
    IF j = 0 THEN 1
    ELSE RegisterAfter(j - 1)
           + (IF arg0[j].name = "addx" THEN arg0[j].params[1] ELSE 0)

\* the instructions that completed before cycle c
CompletedBefore(c) ==
    Cardinality({j \in 1..Len(arg0) : LastCycleOf(j) < c})

\* C27: the listeners are called once per cycle each, in the order they
\* registered, with cycles 1, 2, 3, ... and with the register as it was
\* before the instruction of that cycle: an addx shows its sum first in the
\* cycle after its second one.
C27_ClockOrdering ==
    pc \in {"fetch", "tick", "callback", "execute", "returned"} =>
        /\ \A k \in 1..Len(ret) :
               /\ ret[k].listener = Listeners[((k - 1) % Len(Listeners)) + 1]
               /\ ret[k].cycle_nr = ((k - 1) \div Len(Listeners)) + 1
               /\ ret[k].registers = RegisterAfter(CompletedBefore(ret[k].cycle_nr))
        /\ pc = "returned" =>
               /\ Len(ret) = Len(Listeners) * LastCycleOf(Len(arg0))
               /\ arg.cycle_count = LastCycleOf(Len(arg0))
               /\ arg.registers = RegisterAfter(Len(arg0))

\* noop, addx 2, noop: the CRT sees 1 in cycles 1 to 3 and 3 in cycle 4
C27_Witness ==
    /\ pc = "returned"
    /\ arg0 = <<[name |-> "noop", params |-> <<>>],
                [name |-> "addx", params |-> <<2>>],
                [name |-> "noop", params |-> <<>>]>>
    /\ Len(ret) = 8
    /\ ret[6] = [listener |-> "CRT", cycle_nr |-> 3, registers |-> 1]
    /\ ret[8] = [listener |-> "CRT", cycle_nr |-> 4, registers |-> 3]

\* C28: the bottom row of the rock in flight stays between row 1 and the
\* field's top row; a rock is merged after three down-moves or more, above
\* the floor row 0, with each of its rows on a row the field has; the field
\* never has more than 4 empty rows on top.
C28_DropStaysInField ==
    /\ InFlight =>
           /\ rock_start_offset >= 1
           /\ rock_start_offset <= Len(field) - 1
    /\ pc = "put" =>
           /\ DownMoves >= 3
           /\ \A i \in 0..(Len(rock) - 1) : rock_start_offset + i <= Len(field) - 1
    /\ pc = "error" => EmptyPattern
    /\ field[1] = 127
    /\ Len(field) - 1 - TopmostRow(field) <= 4

\* the upright bar comes to rest after three down-moves: its top row is
\* merged into the top row of the field
C28_Witness ==
    /\ pc = "put"
    /\ Len(rock) = 4
    /\ DownMoves = 3
    /\ rock_start_offset + 3 = Len(field) - 1

\* the key get_tallest_tower looks up in the drop records for nr_drops = N
LookupKey(N) ==
    drops_before_cycles
      + BigDivMod(BigAddInt(N, 0 - drops_before_cycles), cycle_drops).r

\* C29: every drop is recorded with the height the field has once the rock
\* is merged, and a record is never changed; after construction the records
\* cover the drop counts 1..drops_before_cycle + drops_per_cycle and do not
\* decrease; for every N the key looked up by get_tallest_tower is one of
\* drops_before_cycle..drops_before_cycle + drops_per_cycle - 1, which is
\* recorded; and for N from drops_before_cycle to drops_before_cycle +
\* drops_per_cycle the answer is the recorded height after N drops.
C29_RecordsState ==
    /\ (pc = "until" \/ Constructed) =>
           /\ DOMAIN d2h = 1..rocks_dropped
           /\ rocks_dropped >= 1 => d2h[rocks_dropped] = TopmostRow(field)
    /\ Constructed =>
           /\ rocks_dropped = drops_before_cycles + cycle_drops
           /\ \A k \in 1..(drops_before_cycles + cycle_drops) : k \in DOMAIN d2h
           /\ \A k \in 1..(drops_before_cycles + cycle_drops - 1) :
                  d2h[k] <= d2h[k + 1]
           /\ \A N \in Queries :
                  /\ LookupKey(N) >= drops_before_cycles
                  /\ LookupKey(N) <= drops_before_cycles + cycle_drops - 1
                  /\ LookupKey(N) \in DOMAIN d2h
           /\ \A N \in drops_before_cycles..(drops_before_cycles + cycle_drops) :
                  get_tallest_tower(ToBig(N)) = ToBig(d2h[N])
    /\ (pc = "answered" /\ nr_drops.hi = 0
            /\ nr_drops.lo >= drops_before_cycles
            /\ nr_drops.lo <= drops_before_cycles + cycle_drops) =>
           tallest = ToBig(d2h[nr_drops.lo])

C29_RecordsStep ==
    /\ \A k \in DOMAIN d2h : k \in DOMAIN d2h' /\ d2h'[k] = d2h[k]
    /\ (pc = "put" /\ pc' = "until") =>
           /\ DOMAIN d2h' = DOMAIN d2h \cup {rocks_dropped}
           /\ d2h'[rocks_dropped] = TopmostRow(field')

C29_DropRecords == [](C29_RecordsState) /\ [][C29_RecordsStep]_vars

\* the height after the last simulated drop has been asked for: the answer
\* is one cycle above the record of drops_before_cycle
C29_Witness ==
    /\ pc = "answered"
    /\ nr_drops = ToBig(drops_before_cycles + cycle_drops)
    /\ drops_before_cycles >= 2
    /\ cycle_height >= 1
    /\ tallest = ToBig(d2h[drops_before_cycles + cycle_drops])
    /\ tallest = ToBig(d2h[drops_before_cycles] + cycle_height)

====
